---- MODULE Spec2Model ----
(***************************************************************************)
(* Model of the NVIDIA SEC filings scraper (SEC_Scraping).                 *)
(*                                                                         *)
(* The repository holds several variants of the same server:               *)
(*   - src/unnamed/part_000 : CSV-backed history, one listing, three cron  *)
(*     jobs, the /run-scraper endpoint and a start-up run;                 *)
(*   - src/unnamed/part_003 : CSV-backed history, one listing per filing   *)
(*     type, processFilings and determineInvestmentChange;                 *)
(*   - src/unnamed/part_001 (and the second half of src/server.js):        *)
(*     fetchWithRetry and detectChanges over two holdings snapshots.       *)
(*                                                                         *)
(* Text is modelled as a sequence of tokens (a token is a piece of text    *)
(* that the program never looks inside, e.g. "8-K" or "N/A"; digits and    *)
(* separators are tokens of one character). Template literals are          *)
(* concatenations of token sequences, String.includes is a search for a    *)
(* contiguous sub-sequence and String.split cuts at a separator token.     *)
(***************************************************************************)
EXTENDS Integers, Sequences, FiniteSets, TLC

VARIABLES
    csvFile,        \* content of CSV_FILE (text)
    pc,             \* position of every scrape cycle
    filingsToTrack, \* argument of scrapeSecFilings, per cycle
    newFilings,     \* local newFilings / allNewFilings, per cycle
    mails,          \* every mailOptions handed to transporter.sendMail
    overlapped,     \* history: the pairs of cycles that were in flight together
    listed,         \* history: the filing references each cycle's listing showed
    catIndex,       \* part_003: position of the loop over SEC_URLS, per cycle
    filingIndex,    \* part_003: position of the loop of processFilings, per cycle
    investmentChanges, \* part_003: local investmentChanges, per cycle
    fpc, furl, fretries, fdelay, fi, gets, waits, responses, ferror,
                    \* one call of fetchWithRetry
    dpc, oldInvestments, newInvestments, dFilingType, changes,
                    \* one call of detectChanges or determineInvestmentChange
    variant,        \* the source file whose program is running
    res,            \* GET /run-scraper: what res.json was called with, per cycle
    sent,           \* history: the calls of transporter.sendMail, per cycle
    inflight,       \* the requests awaited and not yet answered
    loadedDoc,      \* extractInvestmentData: the document $ holds while the
                    \* XML file is fetched
    rowsLeft,       \* the <tr> rows the "tr" callback has still to run on, per cycle
    running         \* the cycle whose code the event loop is running, 0 for none

storeVars == <<csvFile, pc, filingsToTrack, newFilings, mails, overlapped, listed>>
procVars == <<catIndex, filingIndex, investmentChanges>>
fetchVars == <<fpc, furl, fretries, fdelay, fi, gets, waits, responses, ferror>>
detectVars == <<dpc, oldInvestments, newInvestments, dFilingType, changes>>
cycleVars == <<variant, res, sent, inflight, loadedDoc, rowsLeft, running>>
vars == <<storeVars, procVars, fetchVars, detectVars, cycleVars>>

(***************************************************************************)
(* Bounds                                                                  *)
(***************************************************************************)
MaxCycles == 2      \* scrape cycles started in one behaviour
MaxRows == 2        \* <tr> rows of one listing page

(***************************************************************************)
(* Text                                                                    *)
(***************************************************************************)
NL == "\n"
COMMA == ","

\* String.prototype.includes
Includes(text, needle) ==
    \E i \in 1..(Len(text) - Len(needle) + 1) :
        SubSeq(text, i, i + Len(needle) - 1) = needle

\* Array.prototype.includes
ArrayIncludes(arr, x) == \E i \in 1..Len(arr) : arr[i] = x

RECURSIVE SplitAcc(_, _, _, _)
SplitAcc(text, sep, cur, acc) ==
    IF text = << >> THEN Append(acc, cur)
    ELSE IF Head(text) = sep THEN SplitAcc(Tail(text), sep, << >>, Append(acc, cur))
    ELSE SplitAcc(Tail(text), sep, Append(cur, Head(text)), acc)

\* String.prototype.split(sep) for a separator of one token
Split(text, sep) == SplitAcc(text, sep, << >>, << >>)

(***************************************************************************)
(* part_000: constants                                                     *)
(***************************************************************************)
HIGH_PRIORITY_FILINGS == << <<"13F-HR">>, <<"8-K">>, <<"SC 13D">>, <<"SC 13G">> >>
LONG_TERM_FILINGS == << <<"10-K">>, <<"10-Q">> >>

CSV_HEADER ==
    <<"Date", COMMA, "Type", COMMA, "Company", COMMA, "Shares", COMMA,
      "Value", COMMA, "Change", COMMA, "Link", NL>>

SEC_HOST == <<"https://www.sec.gov">>

(***************************************************************************)
(* History store                                                           *)
(***************************************************************************)
\* Faulty variant of storeFiling below: the file is written anew with the
\* header and the one row (fs.writeFileSync in place of fs.appendFileSync)
storeFiling_Overwrite(file, date, type, link) ==
    CSV_HEADER \o date \o <<COMMA>> \o type
         \o <<COMMA, "N/A", COMMA, "N/A", COMMA, "N/A", COMMA, "N/A", COMMA>>
         \o link \o <<NL>>

\* fs.appendFileSync(CSV_FILE, `${date},${type},N/A,N/A,N/A,N/A,${link}\n`)
storeFiling(file, date, type, link) ==
    file \o date \o <<COMMA>> \o type
         \o <<COMMA, "N/A", COMMA, "N/A", COMMA, "N/A", COMMA, "N/A", COMMA>>
         \o link \o <<NL>>

\* fileData.includes(`${date},${type},${link}`)
isFilingStored(file, date, type, link) ==
    Includes(file, date \o <<COMMA>> \o type \o <<COMMA>> \o link)

(***************************************************************************)
(* Listing pages served by the registry (input of the program)             *)
(***************************************************************************)
\* A <tr> of the listing: the hrefs of its anchors, the text of its first
\* cell and the text of its fourth cell, both trimmed.
ArchiveHref(name) == <<"/", "Archives/edgar/data", name>>

Row8K == [hrefs |-> <<ArchiveHref("/a-index.htm"), <<"/cgi-bin/viewer">>>>,
          type |-> <<"8-K">>, date |-> <<"2024-05-01">>]
Row10K == [hrefs |-> <<ArchiveHref("/b-index.htm")>>,
           type |-> <<"10-K">>, date |-> <<"2024-02-21">>]
RowForm4 == [hrefs |-> <<ArchiveHref("/c-index.htm")>>,
             type |-> <<"4">>, date |-> <<"2024-05-01">>]
RowNoDate == [hrefs |-> <<ArchiveHref("/d-index.htm")>>,
              type |-> <<"8-K">>, date |-> << >>]
RowHeader == [hrefs |-> << >>, type |-> <<"Filings">>, date |-> <<"Filing Date">>]

PageRows == {Row8K, Row10K, RowForm4, RowNoDate, RowHeader}

\* A page lists a filing once
NoRepeat(s) == \A i, j \in 1..Len(s) : s[i] = s[j] => i = j

SeqsUpTo(S, n) == UNION {[1..k -> S] : k \in 0..n}

Pages == {p \in SeqsUpTo(PageRows, MaxRows) : NoRepeat(p)}

\* $(element).find("a[href*='Archives/edgar/data']")
linkElement(row) ==
    SelectSeq(row.hrefs, LAMBDA h : Includes(h, <<"Archives/edgar/data">>))

(***************************************************************************)
(* part_000: scrapeSecFilings                                              *)
(***************************************************************************)
Cycles == 1..MaxCycles

\* Faulty variant of ScanRows below: the new filings are pushed and none
\* is stored
ScanRows_PushOnly(rows, track, st) ==
    LET sel == SelectSeq(rows, LAMBDA r : Len(linkElement(r)) > 0
                                           /\ ArrayIncludes(track, r.type))
    IN  [file |-> st.file,
         found |-> st.found \o [i \in 1..Len(sel) |->
                                  [filingType |-> sel[i].type,
                                   filingDate |-> sel[i].date,
                                   filingLink |-> SEC_HOST \o linkElement(sel[i])[1]]]]

\* The $("tr").each(...) callback of scrapeSecFilings, run over the rows in
\* order. st = [file, found]: the CSV file and the local newFilings.
RECURSIVE ScanRows(_, _, _)
ScanRows(rows, track, st) ==
    IF rows = << >> THEN st
    ELSE
        LET row == Head(rows)
            le == linkElement(row)
            filingType == row.type
            filingDate == row.date
        IN  IF Len(le) > 0 /\ ArrayIncludes(track, filingType)
            THEN LET filingLink == SEC_HOST \o le[1]
                 IN  IF ~isFilingStored(st.file, filingDate, filingType, filingLink)
                     THEN ScanRows(Tail(rows), track,
                            [file |-> storeFiling(st.file, filingDate, filingType, filingLink),
                             found |-> Append(st.found,
                                        [filingType |-> filingType,
                                         filingDate |-> filingDate,
                                         filingLink |-> filingLink])])
                     ELSE ScanRows(Tail(rows), track, st)
            ELSE ScanRows(Tail(rows), track, st)

\* The filing references a page shows for the tracked types (history only)
Shown(page, track) ==
    {[filingType |-> page[i].type, filingDate |-> page[i].date,
      filingLink |-> SEC_HOST \o linkElement(page[i])[1]] :
        i \in {j \in 1..Len(page) :
                 Len(linkElement(page[j])) > 0 /\ ArrayIncludes(track, page[j].type)}}

ShownP(page, filingType) ==
    {[filingType |-> filingType, filingDate |-> page[i].date,
      filingLink |-> SEC_HOST \o linkElement(page[i])[1]] :
        i \in {j \in 1..Len(page) : Len(linkElement(page[j])) > 0}}

InFlight(c) == pc[c] \in {"fetching", "sending"}

\* A request the program awaits the answer of: an HTTP GET (of a listing, of
\* a filing document, of the public IP) or the delivery of a mail
Request(c, kind, n) == [cycle |-> c, kind |-> kind, n |-> n]

\* res.json(body) in the handler of GET /run-scraper; a cycle started by a
\* timer or at start-up has no response to give
\* What a cycle holds of the response of GET /run-scraper: no request
\* started it, or the request waits for res.json
NoRequest == [status |-> "no request"]
Pending == [status |-> "pending"]

Reply(c, body) == [res EXCEPT ![c] = IF @ = Pending THEN body ELSE @]

\* The body the handler of part_000 answers with
RunScraperJson(filings) ==
    IF Len(filings) > 0
    THEN [status |-> "success", message |-> "Found new filings. Email sent!",
          filings |-> filings]
    ELSE [status |-> "success", message |-> "No new filings found."]

\* Faulty variant of the test below: the notification is sent in any case
NotEmpty_Always(list) == TRUE

\* newFilings.length > 0 (and the same test of allNewFilings,
\* investmentChanges and changes in the other files)
NotEmpty(list) == Len(list) > 0

\* scrapeSecFilings(filingsToTrack) up to its first await (axios.get)
CallScrape(c, arg) ==
    /\ pc[c] = "idle"
    /\ \A d \in Cycles : d < c => pc[d] # "idle"
    /\ pc' = [pc EXCEPT ![c] = "fetching"]
    /\ filingsToTrack' = [filingsToTrack EXCEPT ![c] = arg]
    /\ overlapped' = overlapped \cup {{c, d} : d \in {e \in Cycles : e # c /\ InFlight(e)}}
    /\ inflight' = inflight \cup {Request(c, "listing", 1)}
    /\ UNCHANGED <<csvFile, newFilings, mails, listed, procVars, fetchVars,
                   detectVars, variant, rowsLeft, running, loadedDoc, sent>>

\* app.listen callback: scrapeSecFilings(HIGH_PRIORITY_FILINGS) on startup
Startup ==
    /\ \A c \in Cycles : pc[c] = "idle"
    /\ CallScrape(1, HIGH_PRIORITY_FILINGS)
    /\ res' = res

\* cron.schedule("0 * * * *")
CronHourly(c) == CallScrape(c, HIGH_PRIORITY_FILINGS) /\ res' = res

\* cron.schedule("0 10,13,16,20 * * *")
CronPeak(c) == CallScrape(c, HIGH_PRIORITY_FILINGS) /\ res' = res

\* cron.schedule("0 6,12,18,23 * * *")
CronLongTerm(c) == CallScrape(c, LONG_TERM_FILINGS) /\ res' = res

\* GET /run-scraper: the handler awaits scrapeSecFilings and then answers
RunScraper(c) ==
    /\ CallScrape(c, HIGH_PRIORITY_FILINGS \o LONG_TERM_FILINGS)
    /\ res' = [res EXCEPT ![c] = Pending]

\* axios.get(SEC_URL) rejects: the catch logs and returns []
ListingRejects(c) ==
    /\ pc[c] = "fetching"
    /\ pc' = [pc EXCEPT ![c] = "done"]
    /\ newFilings' = [newFilings EXCEPT ![c] = << >>]
    /\ inflight' = inflight \ {Request(c, "listing", 1)}
    /\ res' = Reply(c, RunScraperJson(<< >>))
    /\ UNCHANGED <<csvFile, filingsToTrack, mails, overlapped, listed, procVars,
                   fetchVars, detectVars, variant, rowsLeft, running, loadedDoc, sent>>

\* axios.get(SEC_URL) resolves with a page: the rows are scanned, and if
\* newFilings is not empty sendEmailNotification builds the mail and calls
\* transporter.sendMail; otherwise newFilings is returned to the caller
ListingResolves(c, page) ==
    /\ pc[c] = "fetching"
    /\ LET st == ScanRows(page, filingsToTrack[c], [file |-> csvFile, found |-> << >>])
       IN  /\ csvFile' = st.file
           /\ newFilings' = [newFilings EXCEPT ![c] = st.found]
           /\ IF NotEmpty(st.found)
              THEN /\ mails' = Append(mails, st.found)
                   /\ sent' = [sent EXCEPT ![c] = @ + 1]
                   /\ pc' = [pc EXCEPT ![c] = "sending"]
                   /\ inflight' = (inflight \ {Request(c, "listing", 1)})
                                    \cup {Request(c, "mail", 1)}
                   /\ res' = res
              ELSE /\ mails' = mails
                   /\ sent' = sent
                   /\ pc' = [pc EXCEPT ![c] = "done"]
                   /\ inflight' = inflight \ {Request(c, "listing", 1)}
                   /\ res' = Reply(c, RunScraperJson(st.found))
    /\ listed' = [listed EXCEPT ![c] = Shown(page, filingsToTrack[c])]
    /\ UNCHANGED <<filingsToTrack, overlapped, procVars, fetchVars, detectVars,
                   variant, rowsLeft, running, loadedDoc>>

\* transporter.sendMail resolves: newFilings is returned to the caller
SendMailResolves(c) ==
    /\ pc[c] = "sending"
    /\ pc' = [pc EXCEPT ![c] = "done"]
    /\ inflight' = inflight \ {Request(c, "mail", 1)}
    /\ res' = Reply(c, RunScraperJson(newFilings[c]))
    /\ UNCHANGED <<csvFile, filingsToTrack, newFilings, mails, overlapped,
                   listed, procVars, fetchVars, detectVars, variant, rowsLeft, running, loadedDoc, sent>>

\* Faulty variant of the action below: the rows this cycle has appended are
\* taken back when the delivery fails
SendMailRejects_Rollback(c) ==
    /\ pc[c] = "sending"
    /\ pc' = [pc EXCEPT ![c] = "done"]
    /\ csvFile' = CSV_HEADER
    /\ inflight' = inflight \ {Request(c, "mail", 1)}
    /\ res' = Reply(c, RunScraperJson(newFilings[c]))
    /\ UNCHANGED <<filingsToTrack, newFilings, mails, overlapped,
                   listed, procVars, fetchVars, detectVars, variant, rowsLeft, running, loadedDoc, sent>>

\* transporter.sendMail rejects: the catch of sendEmailNotification logs,
\* and newFilings is returned to the caller
SendMailRejects(c) ==
    /\ pc[c] = "sending"
    /\ pc' = [pc EXCEPT ![c] = "done"]
    /\ inflight' = inflight \ {Request(c, "mail", 1)}
    /\ res' = Reply(c, RunScraperJson(newFilings[c]))
    /\ UNCHANGED <<csvFile, filingsToTrack, newFilings, mails, overlapped,
                   listed, procVars, fetchVars, detectVars, variant, rowsLeft, running, loadedDoc, sent>>

FetchIdle ==
    /\ fpc = "off" /\ furl = << >> /\ fretries = 0 /\ fdelay = 0 /\ fi = 0
    /\ gets = 0 /\ waits = 0 /\ responses = << >> /\ ferror = "none"

DetectIdle ==
    /\ dpc = "off" /\ oldInvestments = << >> /\ newInvestments = << >>
    /\ dFilingType = << >> /\ changes = << >>

StoreInit ==
    /\ csvFile = CSV_HEADER
    /\ pc = [c \in Cycles |-> "idle"]
    /\ filingsToTrack = [c \in Cycles |-> << >>]
    /\ newFilings = [c \in Cycles |-> << >>]
    /\ mails = << >>
    /\ overlapped = {}
    /\ listed = [c \in Cycles |-> {}]

ProcIdle ==
    /\ catIndex = [c \in Cycles |-> 0]
    /\ filingIndex = [c \in Cycles |-> 0]
    /\ investmentChanges = [c \in Cycles |-> << >>]

\* No document is held
NoDocument == [xmlFileLink |-> << >>, rows |-> << >>]

CycleIdle ==
    /\ res = [c \in Cycles |-> NoRequest]
    /\ sent = [c \in Cycles |-> 0]
    /\ inflight = {}
    /\ loadedDoc = NoDocument
    /\ rowsLeft = [c \in Cycles |-> << >>]
    /\ running = 0

Init ==
    /\ variant = "part_000"
    /\ StoreInit /\ ProcIdle /\ FetchIdle /\ DetectIdle /\ CycleIdle

Next ==
    \/ Startup
    \/ \E c \in Cycles : CronHourly(c)
    \/ \E c \in Cycles : CronPeak(c)
    \/ \E c \in Cycles : CronLongTerm(c)
    \/ \E c \in Cycles : RunScraper(c)
    \/ \E c \in Cycles : ListingRejects(c)
    \/ \E c \in Cycles, page \in Pages : ListingResolves(c, page)
    \/ \E c \in Cycles : SendMailResolves(c)
    \/ \E c \in Cycles : SendMailRejects(c)

Spec == Init /\ [][Next]_vars

(***************************************************************************)
(* part_000, statement by statement: the "tr" callback runs once per row,  *)
(* and a cycle gives the event loop to the other cycles only where its     *)
(* code awaits or returns                                                  *)
(***************************************************************************)
\* Faulty variant of Yields below: an await between the isFilingStored test
\* and the storeFiling call
Yields_AfterCheck(p) == p \in {"fetching", "checked", "sending", "done"}

\* The positions at which scrapeSecFilings awaits (axios.get, line 49;
\* sendEmailNotification, line 74) or has returned
Yields(p) == p \in {"fetching", "sending", "done"}

\* The cycle can take its next step: it is running, or it awaits and the
\* event loop runs nothing
CanStep(c) == running = (IF Yields(pc[c]) THEN 0 ELSE c)

\* The cycle goes on after a row, or after the loop when no row is left
EnterR(c, left, found, answered) ==
    LET p == IF left # << >> THEN "row"
             ELSE IF NotEmpty(found) THEN "sending" ELSE "done"
    IN  /\ pc' = [pc EXCEPT ![c] = p]
        /\ running' = (IF Yields(p) THEN 0 ELSE c)
        /\ IF p = "sending"
           THEN /\ mails' = Append(mails, found)
                /\ sent' = [sent EXCEPT ![c] = @ + 1]
                /\ inflight' = answered \cup {Request(c, "mail", 1)}
                /\ res' = res
           ELSE /\ inflight' = answered
                /\ res' = (IF p = "done" THEN Reply(c, RunScraperJson(found)) ELSE res)
                /\ UNCHANGED <<mails, sent>>

\* axios.get resolves: cheerio.load(data), and the callback is about to run
\* on the first row
ListingResolvesR(c, page) ==
    /\ pc[c] = "fetching"
    /\ CanStep(c)
    /\ rowsLeft' = [rowsLeft EXCEPT ![c] = page]
    /\ newFilings' = [newFilings EXCEPT ![c] = << >>]
    /\ listed' = [listed EXCEPT ![c] = Shown(page, filingsToTrack[c])]
    /\ EnterR(c, page, << >>, inflight \ {Request(c, "listing", 1)})
    /\ UNCHANGED <<csvFile, filingsToTrack, overlapped, procVars, fetchVars,
                   detectVars, variant, loadedDoc>>

\* The callback on one row up to the isFilingStored test (lines 56-63)
RowCheckR(c) ==
    /\ pc[c] = "row"
    /\ CanStep(c)
    /\ LET row == Head(rowsLeft[c])
           le == linkElement(row)
       IN  IF /\ Len(le) > 0
              /\ ArrayIncludes(filingsToTrack[c], row.type)
              /\ ~isFilingStored(csvFile, row.date, row.type, SEC_HOST \o le[1])
           THEN /\ pc' = [pc EXCEPT ![c] = "checked"]
                /\ running' = (IF Yields("checked") THEN 0 ELSE c)
                /\ UNCHANGED <<rowsLeft, mails, sent, inflight, res>>
           ELSE /\ rowsLeft' = [rowsLeft EXCEPT ![c] = Tail(@)]
                /\ EnterR(c, Tail(rowsLeft[c]), newFilings[c], inflight)
    /\ UNCHANGED <<csvFile, filingsToTrack, newFilings, overlapped, listed,
                   procVars, fetchVars, detectVars, variant, loadedDoc>>

\* storeFiling and newFilings.push for the row (lines 64-65)
RowStoreR(c) ==
    /\ pc[c] = "checked"
    /\ CanStep(c)
    /\ LET row == Head(rowsLeft[c])
           filingLink == SEC_HOST \o linkElement(row)[1]
           found == Append(newFilings[c],
                           [filingType |-> row.type, filingDate |-> row.date,
                            filingLink |-> filingLink])
       IN  /\ csvFile' = storeFiling(csvFile, row.date, row.type, filingLink)
           /\ newFilings' = [newFilings EXCEPT ![c] = found]
           /\ rowsLeft' = [rowsLeft EXCEPT ![c] = Tail(@)]
           /\ EnterR(c, Tail(rowsLeft[c]), found, inflight)
    /\ UNCHANGED <<filingsToTrack, overlapped, listed, procVars, fetchVars,
                   detectVars, variant, loadedDoc>>

\* A timer, a request or a settled promise starts a callback only when the
\* event loop runs nothing
NextR ==
    \/ running = 0 /\ Startup
    \/ \E c \in Cycles : running = 0 /\ CronHourly(c)
    \/ \E c \in Cycles : running = 0 /\ CronPeak(c)
    \/ \E c \in Cycles : running = 0 /\ CronLongTerm(c)
    \/ \E c \in Cycles : running = 0 /\ RunScraper(c)
    \/ \E c \in Cycles : running = 0 /\ ListingRejects(c)
    \/ \E c \in Cycles, page \in Pages : ListingResolvesR(c, page)
    \/ \E c \in Cycles : RowCheckR(c)
    \/ \E c \in Cycles : RowStoreR(c)
    \/ \E c \in Cycles : running = 0 /\ SendMailResolves(c)
    \/ \E c \in Cycles : running = 0 /\ SendMailRejects(c)

SpecR == Init /\ [][NextR]_vars

(***************************************************************************)
(* Numbers: parseInt yields an integer or NaN                              *)
(***************************************************************************)
NaN == [nan |-> TRUE, v |-> 0]
Num(n) == [nan |-> FALSE, v |-> n]

DigitValue ==
    [d \in {"0", "1", "2", "3", "4", "5", "6", "7", "8", "9"} |->
        CASE d = "0" -> 0 [] d = "1" -> 1 [] d = "2" -> 2 [] d = "3" -> 3
          [] d = "4" -> 4 [] d = "5" -> 5 [] d = "6" -> 6 [] d = "7" -> 7
          [] d = "8" -> 8 [] d = "9" -> 9]

IsDigit(t) == t \in DOMAIN DigitValue

\* The leading digits of a text, read in base 10 (acc is the value so far)
RECURSIVE LeadingDigits(_, _)
LeadingDigits(text, acc) ==
    IF text = << >> \/ ~IsDigit(Head(text)) THEN acc
    ELSE LeadingDigits(Tail(text), 10 * acc + DigitValue[Head(text)])

\* parseInt(text, 10): an optional sign, then the leading digits; NaN when
\* there is no digit
parseInt(text) ==
    LET signed == text # << >> /\ Head(text) \in {"-", "+"}
        body == IF signed THEN Tail(text) ELSE text
    IN  IF body = << >> \/ ~IsDigit(Head(body)) THEN NaN
        ELSE IF signed /\ Head(text) = "-" THEN Num(0 - LeadingDigits(body, 0))
        ELSE Num(LeadingDigits(body, 0))

\* text.replace(/,/g, "")
StripCommas(text) == SelectSeq(text, LAMBDA t : t # COMMA)

\* a > b and a < b on numbers: false when either is NaN
NumGt(a, b) == ~a.nan /\ ~b.nan /\ a.v > b.v
NumLt(a, b) == ~a.nan /\ ~b.nan /\ a.v < b.v

(***************************************************************************)
(* part_003: determineInvestmentChange                                     *)
(***************************************************************************)
INCREASED == "Increased Stake"
REDUCED == "Reduced Stake"
EXITED == "Exited Investment"
EXITED_BELOW_5 == "Exited Investment (Ownership Below 5%)"
NEW_INVESTMENT == "New Investment"

\* The for loop over the rows of the CSV file: the first row that returns
\* decides, a row that returns nothing lets the loop go on ("none" when no
\* row returns). JavaScript counts fields from 0: row[2] is the third.
RECURSIVE ChangeFromRows(_, _, _)
ChangeFromRows(rows, company, newShares) ==
    IF rows = << >> THEN "none"
    ELSE
        LET row == Head(rows)
        IN  IF Len(row) > 2 /\ row[3] = company
            THEN IF Len(row) < 4 THEN "TypeError"
                 ELSE
                    LET oldShares == parseInt(StripCommas(row[4]))
                        newSharesInt == parseInt(StripCommas(newShares))
                    IN  IF NumGt(newSharesInt, oldShares) THEN INCREASED
                        ELSE IF NumLt(newSharesInt, oldShares) /\ NumGt(newSharesInt, Num(0))
                        THEN REDUCED
                        ELSE IF newSharesInt = Num(0) THEN EXITED
                        ELSE ChangeFromRows(Tail(rows), company, newShares)
            ELSE ChangeFromRows(Tail(rows), company, newShares)

determineInvestmentChange(file, company, newShares, filingType) ==
    LET split == Split(file, NL)
        rows == [i \in 1..Len(split) |-> Split(split[i], COMMA)]
        fromRows == ChangeFromRows(rows, company, newShares)
    IN  IF fromRows # "none" THEN fromRows
        ELSE IF (filingType = <<"SC 13D">> \/ filingType = <<"SC 13G">>)
                /\ newShares = <<"0">>
        THEN EXITED_BELOW_5
        ELSE NEW_INVESTMENT

(***************************************************************************)
(* part_003: scrapeSecFilings, processFilings, sendEmailNotification       *)
(***************************************************************************)
MaxNewFilings == 2  \* filings the listings of one cycle show in total
MaxDocRows == 1     \* table rows of one filing document

\* Object.entries(SEC_URLS): the filing types in insertion order
SEC_URLS == << <<"13F-HR">>, <<"8-K">>, <<"SC 13D">>, <<"SC 13G">> >>

\* A <tr> of "table tbody" of a filing document: the trimmed text of its
\* first three cells
TableRows ==
    {[company |-> <<"APPLE INC">>, shares |-> <<"1", "0", "0">>, value |-> <<"5">>],
     [company |-> <<"APPLE INC">>, shares |-> <<"0">>, value |-> <<"0">>],
     [company |-> <<"N/A">>, shares |-> <<"0">>, value |-> <<"0">>],
     [company |-> <<"APPLE INC">>, shares |-> << >>, value |-> <<"5">>]}

Documents == SeqsUpTo(TableRows, MaxDocRows)

\* The listing pages of one filing type (the first cell is not read)
PagesP == {p \in SeqsUpTo({Row8K, RowNoDate, RowHeader}, MaxRows) : NoRepeat(p)}

\* The $("tr").each(...) callback of scrapeSecFilings (part_003)
RECURSIVE ScanListing(_, _, _)
ScanListing(rows, filingType, st) ==
    IF rows = << >> THEN st
    ELSE
        LET row == Head(rows)
            le == linkElement(row)
            filingDate == row.date
        IN  IF Len(le) > 0
            THEN LET filingLink == SEC_HOST \o le[1]
                 IN  IF ~isFilingStored(st.file, filingDate, filingType, filingLink)
                     THEN ScanListing(Tail(rows), filingType,
                            [file |-> storeFiling(st.file, filingDate, filingType, filingLink),
                             found |-> Append(st.found,
                                        [filingType |-> filingType,
                                         filingDate |-> filingDate,
                                         filingLink |-> filingLink])])
                     ELSE ScanListing(Tail(rows), filingType, st)
            ELSE ScanListing(Tail(rows), filingType, st)

\* The $("table tbody tr").each(...) callback of processFilings
RECURSIVE ScanDocument(_, _, _, _)
ScanDocument(rows, filing, file, acc) ==
    IF rows = << >> THEN acc
    ELSE
        LET row == Head(rows)
        IN  IF row.company # << >> /\ row.shares # << >> /\ row.value # << >>
            THEN ScanDocument(Tail(rows), filing, file,
                    Append(acc,
                        [company |-> row.company, shares |-> row.shares,
                         value |-> row.value,
                         change |-> determineInvestmentChange(file, row.company,
                                        row.shares, filing.filingType),
                         filing |-> filing]))
            ELSE ScanDocument(Tail(rows), filing, file, acc)

\* Faulty variant of the loop test below: the loop is left after its first
\* round
HasNext_Never(k, list) == FALSE

\* for (const x of list): after round k another round follows
HasNext(k, list) == k < Len(list)

\* Faulty variant of the definition below: the request is not awaited, so
\* the loop issues the requests of all its remaining rounds at once
LoopRequests_NoAwait(c, kind, k, n) == {Request(c, kind, j) : j \in k..n}

\* The requests round k of a loop of n rounds issues: `await axios.get(..)`
\* issues one request and the loop goes on when it is answered
LoopRequests(c, kind, k, n) == {Request(c, kind, k)}

\* app.listen callback of part_003: scrapeSecFilings() up to its first
\* axios.get. This variant has no timer and no endpoint: the process runs
\* one cycle.
StartupP ==
    /\ pc[1] = "idle"
    /\ pc' = [pc EXCEPT ![1] = "listing"]
    /\ catIndex' = [catIndex EXCEPT ![1] = 1]
    /\ inflight' = inflight \cup LoopRequests(1, "listing", 1, Len(SEC_URLS))
    /\ UNCHANGED <<csvFile, filingsToTrack, newFilings, mails, overlapped, listed,
                   filingIndex, investmentChanges, fetchVars, detectVars,
                   variant, rowsLeft, running, loadedDoc, res, sent>>

\* axios.get(url) of the listing rejects: nothing catches it
ListingRejectsP(c) ==
    /\ pc[c] = "listing"
    /\ Request(c, "listing", catIndex[c]) \in inflight
    /\ pc' = [pc EXCEPT ![c] = "failed"]
    /\ inflight' = inflight \ {Request(c, "listing", catIndex[c])}
    /\ UNCHANGED <<csvFile, filingsToTrack, newFilings, mails, overlapped, listed,
                   procVars, fetchVars, detectVars, variant, rowsLeft, running, loadedDoc, res, sent>>

\* axios.get(url) of the listing resolves: the rows are scanned; then the
\* next listing is requested or, after the last one, processFilings starts
\* and requests the document of the first filing
ListingResolvesP(c, page) ==
    /\ pc[c] = "listing"
    /\ Request(c, "listing", catIndex[c]) \in inflight
    /\ LET filingType == SEC_URLS[catIndex[c]]
           st == ScanListing(page, filingType, [file |-> csvFile, found |-> newFilings[c]])
           answered == inflight \ {Request(c, "listing", catIndex[c])}
       IN  /\ Len(st.found) <= MaxNewFilings
           /\ csvFile' = st.file
           /\ newFilings' = [newFilings EXCEPT ![c] = st.found]
           /\ listed' = [listed EXCEPT ![c] = @ \cup ShownP(page, filingType)]
           /\ IF HasNext(catIndex[c], SEC_URLS)
              THEN /\ catIndex' = [catIndex EXCEPT ![c] = @ + 1]
                   /\ inflight' = answered \cup
                        LoopRequests(c, "listing", catIndex[c] + 1, Len(SEC_URLS))
                   /\ UNCHANGED <<pc, filingIndex>>
              ELSE /\ catIndex' = catIndex
                   /\ IF NotEmpty(st.found)
                      THEN /\ pc' = [pc EXCEPT ![c] = "document"]
                           /\ filingIndex' = [filingIndex EXCEPT ![c] = 1]
                           /\ inflight' = answered \cup
                                LoopRequests(c, "document", 1, Len(st.found))
                      ELSE /\ pc' = [pc EXCEPT ![c] = "done"]
                           /\ filingIndex' = filingIndex
                           /\ inflight' = answered
    /\ UNCHANGED <<filingsToTrack, mails, overlapped, investmentChanges,
                   fetchVars, detectVars, variant, rowsLeft, running, loadedDoc, res, sent>>

\* axios.get(filing.filingLink) rejects: nothing catches it
DocumentRejectsP(c) ==
    /\ pc[c] = "document"
    /\ Request(c, "document", filingIndex[c]) \in inflight
    /\ pc' = [pc EXCEPT ![c] = "failed"]
    /\ inflight' = inflight \ {Request(c, "document", filingIndex[c])}
    /\ UNCHANGED <<csvFile, filingsToTrack, newFilings, mails, overlapped, listed,
                   procVars, fetchVars, detectVars, variant, rowsLeft, running, loadedDoc, res, sent>>

\* axios.get(filing.filingLink) resolves: the table is scanned, the filing
\* is stored, and the loop goes on; after the last filing
\* sendEmailNotification is called if investmentChanges is not empty, and
\* it first awaits getPublicIP
DocumentResolvesP(c, doc) ==
    /\ pc[c] = "document"
    /\ Request(c, "document", filingIndex[c]) \in inflight
    /\ LET filing == newFilings[c][filingIndex[c]]
           found == ScanDocument(doc, filing, csvFile, investmentChanges[c])
           answered == inflight \ {Request(c, "document", filingIndex[c])}
       IN  /\ investmentChanges' = [investmentChanges EXCEPT ![c] = found]
           /\ csvFile' = storeFiling(csvFile, filing.filingDate, filing.filingType,
                                     filing.filingLink)
           /\ IF HasNext(filingIndex[c], newFilings[c])
              THEN /\ filingIndex' = [filingIndex EXCEPT ![c] = @ + 1]
                   /\ pc' = pc
                   /\ inflight' = answered \cup
                        LoopRequests(c, "document", filingIndex[c] + 1,
                                     Len(newFilings[c]))
              ELSE /\ filingIndex' = filingIndex
                   /\ IF NotEmpty(found)
                      THEN /\ pc' = [pc EXCEPT ![c] = "ip"]
                           /\ inflight' = answered \cup {Request(c, "ip", 1)}
                      ELSE /\ pc' = [pc EXCEPT ![c] = "done"]
                           /\ inflight' = answered
    /\ UNCHANGED <<filingsToTrack, newFilings, mails, overlapped, listed, catIndex,
                   fetchVars, detectVars, variant, rowsLeft, running, loadedDoc, res, sent>>

\* getPublicIP returns (the address, or "UNKNOWN_IP" from its catch): the
\* mail is built and transporter.sendMail is called
PublicIPReturnsP(c) ==
    /\ pc[c] = "ip"
    /\ mails' = Append(mails, investmentChanges[c])
    /\ sent' = [sent EXCEPT ![c] = @ + 1]
    /\ pc' = [pc EXCEPT ![c] = "sending"]
    /\ inflight' = (inflight \ {Request(c, "ip", 1)}) \cup {Request(c, "mail", 1)}
    /\ UNCHANGED <<csvFile, filingsToTrack, newFilings, overlapped, listed,
                   procVars, fetchVars, detectVars, variant, rowsLeft, running, loadedDoc, res>>

\* transporter.sendMail resolves
SendMailResolvesP(c) ==
    /\ pc[c] = "sending"
    /\ pc' = [pc EXCEPT ![c] = "done"]
    /\ inflight' = inflight \ {Request(c, "mail", 1)}
    /\ UNCHANGED <<csvFile, filingsToTrack, newFilings, mails, overlapped, listed,
                   procVars, fetchVars, detectVars, variant, rowsLeft, running, loadedDoc, res, sent>>

\* transporter.sendMail rejects: nothing catches it
SendMailRejectsP(c) ==
    /\ pc[c] = "sending"
    /\ pc' = [pc EXCEPT ![c] = "failed"]
    /\ inflight' = inflight \ {Request(c, "mail", 1)}
    /\ UNCHANGED <<csvFile, filingsToTrack, newFilings, mails, overlapped, listed,
                   procVars, fetchVars, detectVars, variant, rowsLeft, running, loadedDoc, res, sent>>

NextP ==
    \/ StartupP
    \/ \E c \in Cycles : ListingRejectsP(c)
    \/ \E c \in Cycles, page \in PagesP : ListingResolvesP(c, page)
    \/ \E c \in Cycles : DocumentRejectsP(c)
    \/ \E c \in Cycles, doc \in Documents : DocumentResolvesP(c, doc)
    \/ \E c \in Cycles : PublicIPReturnsP(c)
    \/ \E c \in Cycles : SendMailResolvesP(c)
    \/ \E c \in Cycles : SendMailRejectsP(c)

\* The CSV file the process finds when it starts: the header alone, or the
\* file an earlier run of the process left (a run that stored a filing on
\* discovery and died on the request for its document).
PriorFiling ==
    [filingType |-> <<"13F-HR">>, filingDate |-> Row8K.date,
     filingLink |-> SEC_HOST \o linkElement(Row8K)[1]]

PriorFiles ==
    LET once == storeFiling(CSV_HEADER, PriorFiling.filingDate,
                            PriorFiling.filingType, PriorFiling.filingLink)
    IN  {CSV_HEADER, once}

InitP ==
    /\ csvFile \in PriorFiles
    /\ pc = [c \in Cycles |-> "idle"]
    /\ filingsToTrack = [c \in Cycles |-> << >>]
    /\ newFilings = [c \in Cycles |-> << >>]
    /\ mails = << >>
    /\ overlapped = {}
    /\ listed = [c \in Cycles |-> {}]
    /\ variant = "part_003"
    /\ ProcIdle /\ FetchIdle /\ DetectIdle /\ CycleIdle

SpecP == InitP /\ [][NextP]_vars

(***************************************************************************)
(* server.js (lines 1-172): scrapeInvestmentFilings                        *)
(***************************************************************************)
\* fs.appendFileSync(CSV_FILE, `${date},${type},N/A,N/A,N/A,${link}\n`)
storeFilingS(file, date, type, link) ==
    file \o date \o <<COMMA>> \o type
         \o <<COMMA, "N/A", COMMA, "N/A", COMMA, "N/A", COMMA>>
         \o link \o <<NL>>

\* The listing pages of one filing type
PagesS == {p \in SeqsUpTo({Row8K, RowHeader}, MaxRows) : NoRepeat(p)}

\* The $("tr").each(...) callback of scrapeInvestmentFilings
RECURSIVE ScanListingS(_, _, _)
ScanListingS(rows, filingType, st) ==
    IF rows = << >> THEN st
    ELSE
        LET row == Head(rows)
            le == linkElement(row)
            filingDate == row.date
        IN  IF Len(le) > 0
            THEN LET filingLink == SEC_HOST \o le[1]
                 IN  IF ~isFilingStored(st.file, filingDate, filingType, filingLink)
                     THEN ScanListingS(Tail(rows), filingType,
                            [file |-> storeFilingS(st.file, filingDate, filingType, filingLink),
                             found |-> Append(st.found,
                                        [filingType |-> filingType,
                                         filingDate |-> filingDate,
                                         filingLink |-> filingLink])])
                     ELSE ScanListingS(Tail(rows), filingType, st)
            ELSE ScanListingS(Tail(rows), filingType, st)

\* The body the handlers of server.js and part_002 answer with
ScanCompletedJson == [status |-> "success", message |-> "Investment scan completed."]

\* scrapeInvestmentFilings() up to its first await (axios.get)
CallScrapeS(c) ==
    /\ pc' = [pc EXCEPT ![c] = "listing"]
    /\ catIndex' = [catIndex EXCEPT ![c] = 1]
    /\ investmentChanges' = [investmentChanges EXCEPT ![c] = << >>]
    /\ inflight' = (inflight \ {Request(c, "ip", 0)})
                        \cup LoopRequests(c, "listing", 1, Len(SEC_URLS))
    /\ UNCHANGED <<csvFile, filingsToTrack, newFilings, mails, overlapped, listed,
                   filingIndex, fetchVars, detectVars, variant, rowsLeft, running, loadedDoc, sent>>

\* app.listen callback of server.js: it awaits getPublicIP first
StartupS ==
    /\ \A c \in Cycles : pc[c] = "idle"
    /\ pc' = [pc EXCEPT ![1] = "starting"]
    /\ inflight' = inflight \cup {Request(1, "ip", 0)}
    /\ UNCHANGED <<csvFile, filingsToTrack, newFilings, mails, overlapped, listed,
                   procVars, fetchVars, detectVars, variant, rowsLeft, running, loadedDoc, res, sent>>

\* getPublicIP returns to the app.listen callback, which calls
\* scrapeInvestmentFilings()
PublicIPReturnsAtStartS ==
    /\ pc[1] = "starting"
    /\ CallScrapeS(1)
    /\ res' = res

\* cron.schedule("0 * * * *") of server.js
CronS(c) ==
    /\ pc[c] = "idle"
    /\ \A d \in Cycles : d < c => pc[d] # "idle"
    /\ CallScrapeS(c)
    /\ res' = res

\* GET /run-scraper of server.js
RunScraperS(c) ==
    /\ pc[c] = "idle"
    /\ \A d \in Cycles : d < c => pc[d] # "idle"
    /\ CallScrapeS(c)
    /\ res' = [res EXCEPT ![c] = Pending]

\* The end of one round of the loop over SEC_URLS: the next listing is
\* requested; after the last round sendEmailNotification is called if
\* investmentChanges is not empty (it first awaits getPublicIP), otherwise
\* the function returns
AfterCategoryS(c, found, answered) ==
    IF HasNext(catIndex[c], SEC_URLS)
    THEN /\ catIndex' = [catIndex EXCEPT ![c] = @ + 1]
         /\ inflight' = answered \cup
                LoopRequests(c, "listing", catIndex[c] + 1, Len(SEC_URLS))
         /\ UNCHANGED <<pc, res>>
    ELSE /\ catIndex' = catIndex
         /\ IF NotEmpty(found)
            THEN /\ pc' = [pc EXCEPT ![c] = "ip"]
                 /\ inflight' = answered \cup {Request(c, "ip", 1)}
                 /\ res' = res
            ELSE /\ pc' = [pc EXCEPT ![c] = "done"]
                 /\ inflight' = answered
                 /\ res' = Reply(c, ScanCompletedJson)

\* axios.get(secUrl) rejects: the catch inside the loop logs
ListingRejectsS(c) ==
    /\ pc[c] = "listing"
    /\ Request(c, "listing", catIndex[c]) \in inflight
    /\ AfterCategoryS(c, investmentChanges[c],
                      inflight \ {Request(c, "listing", catIndex[c])})
    /\ UNCHANGED <<csvFile, filingsToTrack, newFilings, mails, overlapped, listed,
                   filingIndex, investmentChanges, fetchVars, detectVars,
                   variant, rowsLeft, running, loadedDoc, sent>>

\* axios.get(secUrl) resolves: the rows are scanned
ListingResolvesS(c, page) ==
    /\ pc[c] = "listing"
    /\ Request(c, "listing", catIndex[c]) \in inflight
    /\ LET filingType == SEC_URLS[catIndex[c]]
           st == ScanListingS(page, filingType,
                              [file |-> csvFile, found |-> investmentChanges[c]])
       IN  /\ Len(st.found) <= MaxNewFilings
           /\ csvFile' = st.file
           /\ investmentChanges' = [investmentChanges EXCEPT ![c] = st.found]
           /\ listed' = [listed EXCEPT ![c] = @ \cup ShownP(page, filingType)]
           /\ AfterCategoryS(c, st.found,
                             inflight \ {Request(c, "listing", catIndex[c])})
    /\ UNCHANGED <<filingsToTrack, newFilings, mails, overlapped, filingIndex,
                   fetchVars, detectVars, variant, rowsLeft, running, loadedDoc, sent>>

\* getPublicIP returns to sendEmailNotification: the mail is built and
\* transporter.sendMail is called
PublicIPReturnsS(c) ==
    /\ pc[c] = "ip"
    /\ mails' = Append(mails, investmentChanges[c])
    /\ sent' = [sent EXCEPT ![c] = @ + 1]
    /\ pc' = [pc EXCEPT ![c] = "sending"]
    /\ inflight' = (inflight \ {Request(c, "ip", 1)}) \cup {Request(c, "mail", 1)}
    /\ UNCHANGED <<csvFile, filingsToTrack, newFilings, overlapped, listed,
                   procVars, fetchVars, detectVars, variant, rowsLeft, running, loadedDoc, res>>

\* transporter.sendMail resolves
SendMailResolvesS(c) ==
    /\ pc[c] = "sending"
    /\ pc' = [pc EXCEPT ![c] = "done"]
    /\ inflight' = inflight \ {Request(c, "mail", 1)}
    /\ res' = Reply(c, ScanCompletedJson)
    /\ UNCHANGED <<csvFile, filingsToTrack, newFilings, mails, overlapped, listed,
                   procVars, fetchVars, detectVars, variant, rowsLeft, running, loadedDoc, sent>>

\* transporter.sendMail rejects: the catch of sendEmailNotification logs
SendMailRejectsS(c) ==
    /\ pc[c] = "sending"
    /\ pc' = [pc EXCEPT ![c] = "done"]
    /\ inflight' = inflight \ {Request(c, "mail", 1)}
    /\ res' = Reply(c, ScanCompletedJson)
    /\ UNCHANGED <<csvFile, filingsToTrack, newFilings, mails, overlapped, listed,
                   procVars, fetchVars, detectVars, variant, rowsLeft, running, loadedDoc, sent>>

NextS ==
    \/ StartupS
    \/ PublicIPReturnsAtStartS
    \/ \E c \in Cycles : CronS(c)
    \/ \E c \in Cycles : RunScraperS(c)
    \/ \E c \in Cycles : ListingRejectsS(c)
    \/ \E c \in Cycles, page \in PagesS : ListingResolvesS(c, page)
    \/ \E c \in Cycles : PublicIPReturnsS(c)
    \/ \E c \in Cycles : SendMailResolvesS(c)
    \/ \E c \in Cycles : SendMailRejectsS(c)

InitS ==
    /\ variant = "server.js"
    /\ StoreInit /\ ProcIdle /\ FetchIdle /\ DetectIdle /\ CycleIdle

SpecS == InitS /\ [][NextS]_vars

(***************************************************************************)
(* part_001: fetchWithRetry                                                *)
(***************************************************************************)
MaxRetries == 3     \* largest `retries` argument tried

DefaultRetries == 3
DefaultDelay == 3000

FetchUrls == {<<"https://www.sec.gov", "/cgi-bin/browse-edgar">>,
              <<"https://www.sec.gov", "/", "Archives/edgar/data", "/a-index.htm">>}

FetchDelays == {0, DefaultDelay}

\* What axios.get rejects with: no response at all (network failure,
\* malformed URL), or a response with a status outside 2xx
NoResponse == [kind |-> "axios", response |-> FALSE, status |-> 0]
HttpError(s) == [kind |-> "axios", response |-> TRUE, status |-> s]
Failures == {NoResponse} \cup {HttpError(s) : s \in {400, 403, 404, 429, 500, 503}}

Ok200 == [kind |-> "data", response |-> TRUE, status |-> 200]
NoError == [kind |-> "none", response |-> FALSE, status |-> 0]

\* new Error(`[Error] Failed to fetch SEC data after ${retries} attempts`)
ExhaustedError(retries) == [kind |-> "exhausted", response |-> FALSE, status |-> retries]

\* Faulty variants of the test below: the wrong status, and no status test
IsBlocked_Wrong429(error) == error.response /\ error.status = 429
IsBlocked_AnyResponse(error) == error.response

\* error.response && error.response.status === 403
IsBlocked(error) == error.response /\ error.status = 403

\* Faulty variant of the loop test below: one iteration too many
LoopTest_OffByOne(i, retries) == i <= retries

\* the test of the for loop: i < retries
LoopTest(i, retries) == i < retries

\* The head of the for loop with counter i: the next axios.get is issued, or
\* the loop is left and the final throw is reached
EnterLoop(i, retries, issued) ==
    IF LoopTest(i, retries)
    THEN /\ fpc' = "getting"
         /\ gets' = issued + 1
         /\ ferror' = NoError
    ELSE /\ fpc' = "thrown"
         /\ gets' = issued
         /\ ferror' = ExhaustedError(retries)

\* The entry of fetchWithRetry(url, retries, delay): the parameters are
\* bound, i = 0 and the loop test is made
BeginFetch(url, retries, delay) ==
    /\ furl' = url
    /\ fretries' = retries
    /\ fdelay' = delay
    /\ fi' = 0
    /\ waits' = 0
    /\ responses' = << >>
    /\ EnterLoop(0, retries, 0)

\* The caller has taken the result of fetchWithRetry and calls it no more
EndFetch ==
    /\ fpc' = "off" /\ furl' = << >> /\ fretries' = 0 /\ fdelay' = 0 /\ fi' = 0
    /\ gets' = 0 /\ waits' = 0 /\ responses' = << >> /\ ferror' = "none"

\* fetchWithRetry(url, retries, delay) is called
CallFetch(url, retries, delay) ==
    /\ fpc \in {"off", "returned", "thrown"}
    /\ BeginFetch(url, retries, delay)
    /\ UNCHANGED <<storeVars, procVars, detectVars, cycleVars>>

\* axios.get resolves: return response.data
GetResolves ==
    /\ fpc = "getting"
    /\ fpc' = "returned"
    /\ responses' = Append(responses, Ok200)
    /\ UNCHANGED <<furl, fretries, fdelay, fi, gets, waits, ferror>>
    /\ UNCHANGED <<storeVars, procVars, detectVars, cycleVars>>

\* Faulty variant of GetRejects below: after the last permitted attempt the
\* exhaustion error is thrown without the wait
GetRejects_NoLastWait(error) ==
    /\ fpc = "getting"
    /\ responses' = Append(responses, error)
    /\ IF IsBlocked(error) /\ fi + 1 < fretries
       THEN /\ fpc' = "waiting"
            /\ waits' = waits + 1
            /\ ferror' = ferror
       ELSE /\ fpc' = "thrown"
            /\ waits' = waits
            /\ ferror' = IF IsBlocked(error) THEN ExhaustedError(fretries) ELSE error
    /\ UNCHANGED <<furl, fretries, fdelay, fi, gets>>
    /\ UNCHANGED <<storeVars, procVars, detectVars, cycleVars>>

\* axios.get rejects: on a 403 the delay timer is started, any other error
\* is thrown again
GetRejects(error) ==
    /\ fpc = "getting"
    /\ responses' = Append(responses, error)
    /\ IF IsBlocked(error)
       THEN /\ fpc' = "waiting"
            /\ waits' = waits + 1
            /\ ferror' = ferror
       ELSE /\ fpc' = "thrown"
            /\ waits' = waits
            /\ ferror' = error
    /\ UNCHANGED <<furl, fretries, fdelay, fi, gets>>
    /\ UNCHANGED <<storeVars, procVars, detectVars, cycleVars>>

\* the setTimeout of the delay fires: i++ and the loop test
DelayElapses ==
    /\ fpc = "waiting"
    /\ fi' = fi + 1
    /\ EnterLoop(fi + 1, fretries, gets)
    /\ UNCHANGED <<furl, fretries, fdelay, waits, responses>>
    /\ UNCHANGED <<storeVars, procVars, detectVars, cycleVars>>

NextFetch ==
    \/ \E url \in FetchUrls, retries \in 0..MaxRetries, delay \in FetchDelays :
            CallFetch(url, retries, delay)
    \/ GetResolves
    \/ \E error \in Failures : GetRejects(error)
    \/ DelayElapses

InitFetch ==
    /\ variant = "part_001"
    /\ StoreInit /\ ProcIdle /\ FetchIdle /\ DetectIdle /\ CycleIdle

SpecFetch == InitFetch /\ [][NextFetch]_vars

(***************************************************************************)
(* part_001: detectChanges                                                 *)
(***************************************************************************)
MaxHoldings == 2    \* holdings of one snapshot

\* UTF-16 code units of the characters share counts are written with
CodeUnit ==
    [t \in {COMMA} \cup DOMAIN DigitValue |->
        IF t = COMMA THEN 44 ELSE 48 + DigitValue[t]]

\* a < b on two strings: the order of the code units at the first place
\* where they differ; a proper prefix is smaller
RECURSIVE StrLt(_, _)
StrLt(a, b) ==
    IF b = << >> THEN FALSE
    ELSE IF a = << >> THEN TRUE
    ELSE IF Head(a) = Head(b) THEN StrLt(Tail(a), Tail(b))
    ELSE CodeUnit[Head(a)] < CodeUnit[Head(b)]

StrGt(a, b) == StrLt(b, a)

\* the comparison detectChanges makes of two share counts (both are text)
SharesGt(a, b) == StrGt(a, b)
SharesLt(a, b) == StrLt(a, b)

\* oldInvestments.find((inv) => inv.company === newInv.company): the index
\* of the first match, 0 for undefined
FindIndex(investments, company) ==
    LET hits == {i \in 1..Len(investments) : investments[i].company = company}
    IN  IF hits = {} THEN 0 ELSE CHOOSE i \in hits : \A j \in hits : i <= j

\* The body of newInvestments.forEach: the message pushed for newInv, as
\* the values its template holds, or << >> when nothing is pushed
ChangeFor(old, newInv) ==
    LET k == FindIndex(old, newInv.company)
    IN  IF k = 0
        THEN <<[kind |-> "New Investment", company |-> newInv.company,
                shares |-> newInv.shares, other |-> newInv.value]>>
        ELSE IF SharesGt(newInv.shares, old[k].shares)
        THEN <<[kind |-> "Increased stake", company |-> newInv.company,
                shares |-> newInv.shares, other |-> old[k].shares]>>
        ELSE IF SharesLt(newInv.shares, old[k].shares)
        THEN <<[kind |-> "Reduced stake", company |-> newInv.company,
                shares |-> newInv.shares, other |-> old[k].shares]>>
        ELSE << >>

RECURSIVE detectChanges(_, _)
detectChanges(old, new) ==
    IF new = << >> THEN << >>
    ELSE ChangeFor(old, Head(new)) \o detectChanges(old, Tail(new))

\* Holdings as the extractors deliver them: company, shares and value are
\* text
Companies == {<<"APPLE INC">>, <<"ARM HOLDINGS">>}
ShareTexts == {<<"0">>, <<"9">>, <<"1", "0">>, <<"9", "9">>, <<"1", "0", "0">>}
Holdings == {[company |-> c, shares |-> n, value |-> <<"5">>] :
                c \in Companies, n \in ShareTexts}
Snapshots == SeqsUpTo(Holdings, MaxHoldings)

\* detectChanges(oldInvestments, newInvestments) returns
DetectReturns ==
    /\ dpc = "detectChanges"
    /\ changes' = detectChanges(oldInvestments, newInvestments)
    /\ dpc' = "detected"
    /\ UNCHANGED <<oldInvestments, newInvestments, dFilingType>>
    /\ UNCHANGED <<storeVars, procVars, fetchVars, cycleVars>>

\* The body of the "table tbody tr" callback of processFilings for one
\* holding: change = determineInvestmentChange(...), and if (change) the
\* record is pushed
PushChange(file, holding, filingType) ==
    LET change == determineInvestmentChange(file, holding.company,
                                            holding.shares, filingType)
    IN  IF change # ""
        THEN <<[kind |-> change, company |-> holding.company,
                shares |-> holding.shares, other |-> holding.value]>>
        ELSE << >>

\* determineInvestmentChange(company, newShares, filingType) returns to
\* processFilings; the holding is newInvestments[1]
DetermineReturns ==
    /\ dpc = "determineInvestmentChange"
    /\ changes' = PushChange(csvFile, newInvestments[1], dFilingType)
    /\ dpc' = "determined"
    /\ UNCHANGED <<oldInvestments, newInvestments, dFilingType>>
    /\ UNCHANGED <<storeVars, procVars, fetchVars, cycleVars>>

\* processFilings stores the filing it has just processed (storeFiling after
\* the table was scanned) before it goes on to the next filing
StoreBetweenCalls ==
    /\ dpc = "determined"
    /\ csvFile' = storeFiling(csvFile, PriorFiling.filingDate, dFilingType,
                              PriorFiling.filingLink)
    /\ dpc' = "stored"
    /\ UNCHANGED <<pc, filingsToTrack, newFilings, mails, overlapped, listed>>
    /\ UNCHANGED <<oldInvestments, newInvestments, dFilingType, changes>>
    /\ UNCHANGED <<procVars, fetchVars, cycleVars>>

\* determineInvestmentChange is called again with the same arguments (the
\* same holding in the table of the next filing) and returns
DetermineReturnsAgain ==
    /\ dpc = "stored"
    /\ changes' = changes \o PushChange(csvFile, newInvestments[1], dFilingType)
    /\ dpc' = "determined again"
    /\ UNCHANGED <<oldInvestments, newInvestments, dFilingType>>
    /\ UNCHANGED <<storeVars, procVars, fetchVars, cycleVars>>

\* A CSV file that holds what its header announces: the row of a holding
\* (company, shares, value and change in the third to sixth field), which
\* is the row determineInvestmentChange looks for
HoldingsHistory ==
    CSV_HEADER
        \o <<"2024-02-14", COMMA, "13F-HR", COMMA, "APPLE INC", COMMA,
             "1", "0", "0", COMMA, "5", COMMA, NEW_INVESTMENT, COMMA>>
        \o PriorFiling.filingLink \o <<NL>>

\* The same file with an older row of the same company before the end
HoldingsHistoryTwice ==
    HoldingsHistory
        \o <<"2023-11-14", COMMA, "13F-HR", COMMA, "APPLE INC", COMMA,
             "9", COMMA, "5", COMMA, NEW_INVESTMENT, COMMA>>
        \o PriorFiling.filingLink \o <<NL>>

\* A call of detectChanges on two snapshots, or a call of
\* determineInvestmentChange on one holding of a filing document, with the
\* CSV file as storeFiling leaves it or with a holdings row in it
InitDetect ==
    /\ pc = [c \in Cycles |-> "idle"]
    /\ filingsToTrack = [c \in Cycles |-> << >>]
    /\ newFilings = [c \in Cycles |-> << >>]
    /\ mails = << >>
    /\ overlapped = {}
    /\ listed = [c \in Cycles |-> {}]
    /\ ProcIdle /\ FetchIdle /\ CycleIdle
    /\ changes = << >>
    /\ \/ /\ dpc = "detectChanges"
          /\ variant = "part_001"
          /\ csvFile = CSV_HEADER
          /\ dFilingType = << >>
          /\ oldInvestments \in Snapshots
          /\ newInvestments \in Snapshots
       \/ /\ dpc = "determineInvestmentChange"
          /\ variant = "part_003"
          /\ csvFile \in PriorFiles \cup {HoldingsHistory, HoldingsHistoryTwice}
          /\ dFilingType \in {SEC_URLS[k] : k \in 1..Len(SEC_URLS)}
          /\ oldInvestments = << >>
          /\ newInvestments \in
                {<<[company |-> r.company, shares |-> r.shares, value |-> r.value]>> :
                    r \in {t \in TableRows \cup Holdings : t.shares # << >>}}

NextDetect ==
    \/ DetectReturns
    \/ DetermineReturns
    \/ StoreBetweenCalls
    \/ DetermineReturnsAgain

SpecDetect == InitDetect /\ [][NextDetect]_vars

(***************************************************************************)
(* part_001, part_002 and server.js (lines 174-413): the cycle that        *)
(* compares the two latest filings of each filing type. scrapeSecFilings   *)
(* is that of part_001 (fetchWithRetry, try/catch) or that of part_002     *)
(* (axios.get, no try/catch); compareFilings, sendEmailNotification and    *)
(* the handler of /run-scraper are those of part_002; extractInvestmentData*)
(* is that of server.js and the two extractors are those of part_001.      *)
(* The cycles of this program share no state (filingsData is never         *)
(* written), and one cycle is followed.                                    *)
(***************************************************************************)
\* Object.entries(SEC_URLS): the filing types in insertion order
SEC_URLS_M == << <<"13F-HR">>, <<"SC 13D">>, <<"SC 13G">> >>

ListingUrl(filingType) == <<"https://www.sec.gov", "/cgi-bin/browse-edgar">> \o filingType

\* The registry lists the filings newest first
LatestFirst == <<Row8K, RowForm4, Row10K>>

PagesM ==
    {SubSeq(LatestFirst, 1, n) :
        n \in 0..(IF MaxRows < Len(LatestFirst) THEN MaxRows ELSE Len(LatestFirst))}

\* The $("tr").each(...) callback of scrapeSecFilings: the local `filings`
RECURSIVE FilingsOf(_)
FilingsOf(rows) ==
    IF rows = << >> THEN << >>
    ELSE LET le == linkElement(Head(rows))
         IN  (IF Len(le) > 0
              THEN <<[filingDate |-> Head(rows).date,
                      filingLink |-> SEC_HOST \o le[1]]>>
              ELSE << >>) \o FilingsOf(Tail(rows))

\* if (filings.length >= 2) newFilings[filingType] = [filings[0], filings[1]]
WithLatestTwo(entries, filingType, filings) ==
    IF Len(filings) >= 2
    THEN Append(entries, [filingType |-> filingType,
                          filings |-> <<filings[1], filings[2]>>])
    ELSE entries

\* The number of characters of a text
TokenLength(t) ==
    CASE t = "APPLE INC" -> 9
      [] t = "ARM HOLDINGS" -> 12
      [] t = "SUBMISSION TEXT FILE" -> 20
      [] t = "Unknown" -> 7
      [] t = "N/A" -> 3
      [] t = "AB" -> 2
      [] OTHER -> 1

RECURSIVE TextLength(_)
TextLength(text) ==
    IF text = << >> THEN 0 ELSE TokenLength(Head(text)) + TextLength(Tail(text))

\* extractInvestmentsFromHTML($): the rows of "table tbody" with a company,
\* a share count, a value and a company name longer than two characters
RECURSIVE extractInvestmentsFromHTML(_)
extractInvestmentsFromHTML(rows) ==
    IF rows = << >> THEN << >>
    ELSE LET row == Head(rows)
         IN  (IF /\ row.company # << >> /\ row.shares # << >> /\ row.value # << >>
                 /\ TextLength(row.company) > 2
              THEN <<[company |-> row.company, shares |-> row.shares,
                      value |-> row.value]>>
              ELSE << >>) \o extractInvestmentsFromHTML(Tail(rows))

\* The callback of parser.parseString in extractInvestmentsFromXML: xml is
\* what the parser hands over, the error flag and the infoTable elements
\* of informationTable (none when either is missing)
extractInvestmentsFromXML(xml) ==
    IF xml.err THEN << >>
    ELSE IF xml.infoTable = << >> THEN << >>
    ELSE [i \in 1..Len(xml.infoTable) |->
            LET entry == xml.infoTable[i]
            IN  [company |-> IF entry.nameOfIssuer # << >>
                             THEN entry.nameOfIssuer ELSE <<"Unknown">>,
                 shares |-> IF entry.sshPrnamt # << >>
                            THEN entry.sshPrnamt ELSE <<"0">>,
                 value |-> IF entry.value # << >> THEN entry.value ELSE <<"0">>]]

\* The filing documents and the information tables the registry serves
XML_LINK == <<"/", "Archives/edgar/data", "/information_table.xml">>

TableRowsM ==
    {[company |-> <<"APPLE INC">>, shares |-> <<"1", "0", "0">>, value |-> <<"5">>],
     [company |-> <<"APPLE INC">>, shares |-> << >>, value |-> <<"5">>],
     [company |-> <<"AB">>, shares |-> <<"7">>, value |-> <<"1">>],
     [company |-> <<"SUBMISSION TEXT FILE">>, shares |-> <<"7">>, value |-> <<"1">>]}

\* A document that links an information table may carry a table as well
LinkedTableRows ==
    {[company |-> <<"APPLE INC">>, shares |-> <<"1", "0", "0">>, value |-> <<"5">>]}

DocsM ==
    {[xmlFileLink |-> XML_LINK, rows |-> r] : r \in SeqsUpTo(LinkedTableRows, MaxDocRows)}
        \cup {[xmlFileLink |-> << >>, rows |-> r] : r \in SeqsUpTo(TableRowsM, MaxDocRows)}

XmlEntries ==
    {[nameOfIssuer |-> <<"APPLE INC">>, sshPrnamt |-> <<"9">>, value |-> <<"5">>]}

XmlsM ==
    {[err |-> TRUE, infoTable |-> << >>]}
        \cup {[err |-> FALSE, infoTable |-> t] : t \in SeqsUpTo(XmlEntries, MaxDocRows)}

\* The failures of a GET that are followed here
FailuresM == {NoResponse, HttpError(403)}

\* The cycle whose steps are followed
TheCycle == 1

\* The request for the listing of category k: fetchWithRetry(url) in
\* part_001, axios.get(url) in part_002
IssueListingM(c, k, answered) ==
    IF variant = "part_001"
    THEN /\ BeginFetch(ListingUrl(SEC_URLS_M[k]), DefaultRetries, DefaultDelay)
         /\ inflight' = answered
    ELSE /\ EndFetch
         /\ inflight' = answered \cup LoopRequests(c, "listing", k, Len(SEC_URLS_M))

\* scrapeSecFilings() is called
CallScrapeM(c) ==
    /\ pc[c] = "idle"
    /\ pc' = [pc EXCEPT ![c] = "listing"]
    /\ newFilings' = [newFilings EXCEPT ![c] = << >>]
    /\ catIndex' = [catIndex EXCEPT ![c] = 1]
    /\ IssueListingM(c, 1, inflight)
    /\ UNCHANGED <<csvFile, filingsToTrack, mails, overlapped, listed,
                   filingIndex, investmentChanges, detectVars, variant, rowsLeft, running, loadedDoc, sent>>

\* app.listen callback
StartupM == CallScrapeM(TheCycle) /\ res' = res

\* cron.schedule("0 * * * *", ...)
CronM == CallScrapeM(TheCycle) /\ res' = res

\* app.get("/run-scraper", ...): await scrapeSecFilings()
RunScraperM ==
    /\ CallScrapeM(TheCycle)
    /\ res' = [res EXCEPT ![TheCycle] = Pending]

\* After the category loop: compareFilings(newFilings) when an entry was
\* kept, and its first extractInvestmentData(oldFiling); the cycle is over
\* otherwise
BeginCompareOrEnd(c, entries, answered) ==
    IF NotEmpty(entries)
    THEN /\ filingIndex' = [filingIndex EXCEPT ![c] = 1]
         /\ changes' = << >>
         /\ pc' = [pc EXCEPT ![c] = "oldDoc"]
         /\ BeginFetch(entries[1].filings[2].filingLink, DefaultRetries, DefaultDelay)
         /\ inflight' = answered
         /\ res' = res
    ELSE /\ pc' = [pc EXCEPT ![c] = "done"]
         /\ EndFetch
         /\ inflight' = answered
         /\ res' = Reply(c, ScanCompletedJson)
         /\ UNCHANGED <<filingIndex, changes>>

\* One round of the category loop is over with these entries kept
AfterListingM(c, entries, answered) ==
    /\ newFilings' = [newFilings EXCEPT ![c] = entries]
    /\ IF HasNext(catIndex[c], SEC_URLS_M)
       THEN /\ catIndex' = [catIndex EXCEPT ![c] = @ + 1]
            /\ IssueListingM(c, catIndex[c] + 1, answered)
            /\ UNCHANGED <<pc, filingIndex, changes, res>>
       ELSE /\ catIndex' = catIndex
            /\ BeginCompareOrEnd(c, entries, answered)
    /\ UNCHANGED <<csvFile, filingsToTrack, mails, overlapped, listed,
                   investmentChanges, dpc, oldInvestments, newInvestments,
                   dFilingType, variant, rowsLeft, running, loadedDoc, sent>>

\* part_002: axios.get of a category listing rejects; nothing catches it
ListingRejectsM(c) ==
    /\ variant = "part_002"
    /\ pc[c] = "listing"
    /\ Request(c, "listing", catIndex[c]) \in inflight
    /\ pc' = [pc EXCEPT ![c] = "failed"]
    /\ inflight' = inflight \ {Request(c, "listing", catIndex[c])}
    /\ UNCHANGED <<csvFile, filingsToTrack, newFilings, mails, overlapped, listed>>
    /\ UNCHANGED <<procVars, fetchVars, detectVars, variant, rowsLeft, running, loadedDoc, res, sent>>

\* part_002: axios.get of a category listing resolves
ListingResolvesM(c, page) ==
    /\ variant = "part_002"
    /\ pc[c] = "listing"
    /\ Request(c, "listing", catIndex[c]) \in inflight
    /\ AfterListingM(c, WithLatestTwo(newFilings[c], SEC_URLS_M[catIndex[c]],
                                      FilingsOf(page)),
                     inflight \ {Request(c, "listing", catIndex[c])})

\* part_001: fetchWithRetry of a category listing returns
ListingReturnsM(c, page) ==
    /\ variant = "part_001"
    /\ pc[c] = "listing"
    /\ fpc = "returned"
    /\ AfterListingM(c, WithLatestTwo(newFilings[c], SEC_URLS_M[catIndex[c]],
                                      FilingsOf(page)), inflight)

\* part_001: fetchWithRetry of a category listing throws; the catch of the
\* round logs it
ListingThrowsM(c) ==
    /\ variant = "part_001"
    /\ pc[c] = "listing"
    /\ fpc = "thrown"
    /\ AfterListingM(c, newFilings[c], inflight)

\* extractInvestmentData(filing) has returned `result` to compareFilings
ExtractedM(c, result) ==
    LET entry == newFilings[c][filingIndex[c]]
    IN  /\ IF pc[c] \in {"oldDoc", "oldXml"}
           THEN /\ oldInvestments' = result
                /\ newInvestments' = newInvestments
                /\ pc' = [pc EXCEPT ![c] = "newDoc"]
                /\ BeginFetch(entry.filings[1].filingLink, DefaultRetries, DefaultDelay)
                /\ UNCHANGED <<changes, filingIndex, inflight, res>>
           ELSE LET found == detectChanges(oldInvestments, result)
                    all == IF NotEmpty(found) THEN changes \o found ELSE changes
                IN  /\ newInvestments' = result
                    /\ oldInvestments' = oldInvestments
                    /\ changes' = all
                    /\ IF HasNext(filingIndex[c], newFilings[c])
                       THEN /\ filingIndex' = [filingIndex EXCEPT ![c] = @ + 1]
                            /\ pc' = [pc EXCEPT ![c] = "oldDoc"]
                            /\ BeginFetch(newFilings[c][filingIndex[c] + 1].filings[2].filingLink,
                                          DefaultRetries, DefaultDelay)
                            /\ UNCHANGED <<inflight, res>>
                       ELSE /\ filingIndex' = filingIndex
                            /\ EndFetch
                            /\ IF NotEmpty(all)
                               THEN /\ pc' = [pc EXCEPT ![c] = "ip"]
                                    /\ inflight' = inflight \cup {Request(c, "ip", 1)}
                                    /\ res' = res
                               ELSE /\ pc' = [pc EXCEPT ![c] = "done"]
                                    /\ inflight' = inflight
                                    /\ res' = Reply(c, ScanCompletedJson)
        /\ UNCHANGED <<csvFile, filingsToTrack, newFilings, mails, overlapped,
                       listed, catIndex, investmentChanges, dpc, dFilingType,
                       variant, rowsLeft, running, sent>>
        /\ loadedDoc' = NoDocument

\* fetchWithRetry(filing.filingLink) returns the document
DocumentReturnsM(c, doc) ==
    /\ pc[c] \in {"oldDoc", "newDoc"}
    /\ fpc = "returned"
    /\ IF doc.xmlFileLink # << >>
       THEN /\ pc' = [pc EXCEPT ![c] = IF @ = "oldDoc" THEN "oldXml" ELSE "newXml"]
            /\ BeginFetch(SEC_HOST \o doc.xmlFileLink, DefaultRetries, DefaultDelay)
            /\ loadedDoc' = doc
            /\ UNCHANGED <<csvFile, filingsToTrack, newFilings, mails, overlapped, listed>>
            /\ UNCHANGED <<procVars, detectVars, variant, rowsLeft, running, res, sent, inflight>>
       ELSE ExtractedM(c, extractInvestmentsFromHTML(doc.rows))

\* fetchWithRetry(filing.filingLink) throws: the catch returns []
DocumentThrowsM(c) ==
    /\ pc[c] \in {"oldDoc", "newDoc"}
    /\ fpc = "thrown"
    /\ ExtractedM(c, << >>)

\* fetchWithRetry(xmlFileLink) returns and the parser calls back
XmlReturnsM(c, xml) ==
    /\ pc[c] \in {"oldXml", "newXml"}
    /\ fpc = "returned"
    /\ ExtractedM(c, extractInvestmentsFromXML(xml))

\* fetchWithRetry(xmlFileLink) throws: the catch returns []
XmlThrowsM(c) ==
    /\ pc[c] \in {"oldXml", "newXml"}
    /\ fpc = "thrown"
    /\ ExtractedM(c, << >>)

\* sendEmailNotification(changes): getPublicIP() has returned and
\* transporter.sendMail(mailOptions) is called
PublicIPReturnsM(c) ==
    /\ pc[c] = "ip"
    /\ Request(c, "ip", 1) \in inflight
    /\ pc' = [pc EXCEPT ![c] = "sending"]
    /\ mails' = Append(mails, changes)
    /\ sent' = [sent EXCEPT ![c] = @ + 1]
    /\ inflight' = (inflight \ {Request(c, "ip", 1)}) \cup {Request(c, "mail", 1)}
    /\ UNCHANGED <<csvFile, filingsToTrack, newFilings, overlapped, listed>>
    /\ UNCHANGED <<procVars, fetchVars, detectVars, variant, rowsLeft, running, loadedDoc, res>>

\* transporter.sendMail resolves; the handler of /run-scraper answers
SendMailResolvesM(c) ==
    /\ pc[c] = "sending"
    /\ Request(c, "mail", 1) \in inflight
    /\ pc' = [pc EXCEPT ![c] = "done"]
    /\ inflight' = inflight \ {Request(c, "mail", 1)}
    /\ res' = Reply(c, ScanCompletedJson)
    /\ UNCHANGED <<csvFile, filingsToTrack, newFilings, mails, overlapped, listed>>
    /\ UNCHANGED <<procVars, fetchVars, detectVars, variant, rowsLeft, running, loadedDoc, sent>>

\* transporter.sendMail rejects; nothing catches it
SendMailRejectsM(c) ==
    /\ pc[c] = "sending"
    /\ Request(c, "mail", 1) \in inflight
    /\ pc' = [pc EXCEPT ![c] = "failed"]
    /\ inflight' = inflight \ {Request(c, "mail", 1)}
    /\ UNCHANGED <<csvFile, filingsToTrack, newFilings, mails, overlapped, listed>>
    /\ UNCHANGED <<procVars, fetchVars, detectVars, variant, rowsLeft, running, loadedDoc, res, sent>>

NextM ==
    \/ StartupM
    \/ CronM
    \/ RunScraperM
    \/ ListingRejectsM(TheCycle)
    \/ \E page \in PagesM : ListingResolvesM(TheCycle, page)
    \/ \E page \in PagesM : ListingReturnsM(TheCycle, page)
    \/ ListingThrowsM(TheCycle)
    \/ GetResolves
    \/ \E error \in FailuresM : GetRejects(error)
    \/ DelayElapses
    \/ \E doc \in DocsM : DocumentReturnsM(TheCycle, doc)
    \/ DocumentThrowsM(TheCycle)
    \/ \E xml \in XmlsM : XmlReturnsM(TheCycle, xml)
    \/ XmlThrowsM(TheCycle)
    \/ PublicIPReturnsM(TheCycle)
    \/ SendMailResolvesM(TheCycle)
    \/ SendMailRejectsM(TheCycle)

InitM ==
    /\ variant \in {"part_001", "part_002"}
    /\ StoreInit /\ ProcIdle /\ FetchIdle /\ DetectIdle /\ CycleIdle

SpecM == InitM /\ [][NextM]_vars

(***************************************************************************)
(* Every variant of the program: the process runs one of the source files  *)
(***************************************************************************)
InitAll == Init \/ InitP \/ InitS \/ InitM

NextAll ==
    \/ variant = "part_000" /\ Startup
    \/ \E c \in Cycles : variant = "part_000" /\ CronHourly(c)
    \/ \E c \in Cycles : variant = "part_000" /\ CronPeak(c)
    \/ \E c \in Cycles : variant = "part_000" /\ CronLongTerm(c)
    \/ \E c \in Cycles : variant = "part_000" /\ RunScraper(c)
    \/ \E c \in Cycles : variant = "part_000" /\ ListingRejects(c)
    \/ \E c \in Cycles, page \in Pages : variant = "part_000" /\ ListingResolves(c, page)
    \/ \E c \in Cycles : variant = "part_000" /\ SendMailResolves(c)
    \/ \E c \in Cycles : variant = "part_000" /\ SendMailRejects(c)
    \/ variant = "part_003" /\ StartupP
    \/ \E c \in Cycles : variant = "part_003" /\ ListingRejectsP(c)
    \/ \E c \in Cycles, page \in PagesP : variant = "part_003" /\ ListingResolvesP(c, page)
    \/ \E c \in Cycles : variant = "part_003" /\ DocumentRejectsP(c)
    \/ \E c \in Cycles, doc \in Documents : variant = "part_003" /\ DocumentResolvesP(c, doc)
    \/ \E c \in Cycles : variant = "part_003" /\ PublicIPReturnsP(c)
    \/ \E c \in Cycles : variant = "part_003" /\ SendMailResolvesP(c)
    \/ \E c \in Cycles : variant = "part_003" /\ SendMailRejectsP(c)
    \/ variant = "server.js" /\ StartupS
    \/ variant = "server.js" /\ PublicIPReturnsAtStartS
    \/ \E c \in Cycles : variant = "server.js" /\ CronS(c)
    \/ \E c \in Cycles : variant = "server.js" /\ RunScraperS(c)
    \/ \E c \in Cycles : variant = "server.js" /\ ListingRejectsS(c)
    \/ \E c \in Cycles, page \in PagesS : variant = "server.js" /\ ListingResolvesS(c, page)
    \/ \E c \in Cycles : variant = "server.js" /\ PublicIPReturnsS(c)
    \/ \E c \in Cycles : variant = "server.js" /\ SendMailResolvesS(c)
    \/ \E c \in Cycles : variant = "server.js" /\ SendMailRejectsS(c)
    \/ variant \in {"part_001", "part_002"} /\ StartupM
    \/ variant \in {"part_001", "part_002"} /\ CronM
    \/ variant \in {"part_001", "part_002"} /\ RunScraperM
    \/ variant \in {"part_001", "part_002"} /\ ListingRejectsM(TheCycle)
    \/ \E page \in PagesM : variant \in {"part_001", "part_002"} /\ ListingResolvesM(TheCycle, page)
    \/ \E page \in PagesM : variant \in {"part_001", "part_002"} /\ ListingReturnsM(TheCycle, page)
    \/ variant \in {"part_001", "part_002"} /\ ListingThrowsM(TheCycle)
    \/ variant \in {"part_001", "part_002"} /\ GetResolves
    \/ \E error \in FailuresM : variant \in {"part_001", "part_002"} /\ GetRejects(error)
    \/ variant \in {"part_001", "part_002"} /\ DelayElapses
    \/ \E doc \in DocsM : variant \in {"part_001", "part_002"} /\ DocumentReturnsM(TheCycle, doc)
    \/ variant \in {"part_001", "part_002"} /\ DocumentThrowsM(TheCycle)
    \/ \E xml \in XmlsM : variant \in {"part_001", "part_002"} /\ XmlReturnsM(TheCycle, xml)
    \/ variant \in {"part_001", "part_002"} /\ XmlThrowsM(TheCycle)
    \/ variant \in {"part_001", "part_002"} /\ PublicIPReturnsM(TheCycle)
    \/ variant \in {"part_001", "part_002"} /\ SendMailResolvesM(TheCycle)
    \/ variant \in {"part_001", "part_002"} /\ SendMailRejectsM(TheCycle)

SpecAll == InitAll /\ [][NextAll]_vars

(***************************************************************************)
(* History store as the specification reads it: one entry per data row,    *)
(* identified by the triple (date, type, link) = first, second and last    *)
(* field of the row                                                        *)
(***************************************************************************)
Fields(file) ==
    LET rows == Split(file, NL)
    IN  [i \in 1..Len(rows) |-> Split(rows[i], COMMA)]

EntryRows(file) == {i \in 2..Len(Fields(file)) : Len(Fields(file)[i]) >= 3}

Triple(f) == <<f.filingDate, f.filingType, f.filingLink>>

RowTriple(fields) == <<fields[1], fields[2], fields[Len(fields)]>>

\* The number of entries the history store holds for a filing reference
Entries(file, f) ==
    Cardinality({i \in EntryRows(file) : RowTriple(Fields(file)[i]) = Triple(f)})

Recorded(file, f) == Entries(file, f) > 0

\* The number of times a filing reference was put in a notification
ItemFiling(item) == IF "filing" \in DOMAIN item THEN item.filing ELSE item

Notified(f) ==
    Cardinality(UNION {{<<m, i>> : i \in {j \in 1..Len(mails[m]) :
                                            ItemFiling(mails[m][j]) = f}} :
                       m \in 1..Len(mails)})

(***************************************************************************)
(* Claims                                                                  *)
(***************************************************************************)
\* C1: once storeFiling(date, type, link) has appended a filing to the
\* history store, isFilingStored(date, type, link) returns true, whatever
\* was stored or looked up in between.
C1_StoredIsFound ==
    \A c \in Cycles : \A i \in 1..Len(newFilings[c]) :
        LET f == newFilings[c][i]
        IN  Recorded(csvFile, f) =>
                isFilingStored(csvFile, f.filingDate, f.filingType, f.filingLink)

\* C2: a filing reference that the history store already holds is never put
\* in a notification again, and a cycle whose listing shows no reference
\* absent from the history sends no notification: every notification sent
\* is not empty and holds only references that were absent from the store
\* before the step that sent it.
C2_NoRepeatedNotification ==
    [][mails' # mails =>
          LET m == mails'[Len(mails')]
          IN  /\ Len(m) > 0
              /\ \A i \in 1..Len(m) : ~Recorded(csvFile, m[i])]_vars

\* C3: when two cycles were in flight at the same time and the listings of
\* both showed the same filing reference, then once both have ended the
\* history store holds exactly one entry for it and at most one
\* notification contains it.
C3_ConcurrentCyclesOneEntry ==
    \A c, d \in Cycles :
        ({c, d} \in overlapped /\ c # d /\ pc[c] = "done" /\ pc[d] = "done") =>
            \A f \in listed[c] \cap listed[d] :
                Entries(csvFile, f) = 1 /\ Notified(f) <= 1

\* C4: the history store holds at most one entry per identity triple
\* (date, type, link), also within the single cycle that discovers a filing
\* and then processes it.
C4_OneEntryPerTriple ==
    \A i, j \in EntryRows(csvFile) :
        RowTriple(Fields(csvFile)[i]) = RowTriple(Fields(csvFile)[j]) => i = j

(***************************************************************************)
(* fetchWithRetry                                                          *)
(***************************************************************************)
FetchEnded == fpc \in {"returned", "thrown"}

\* what the claims call retryable and non-retryable failures
RateLimitOr5xx == {HttpError(s) : s \in {403, 429, 500, 503}}
PermanentFailure == {NoResponse} \cup {HttpError(s) : s \in {400, 404}}

\* C5: one call issues at most `retries` GETs; when every attempt is
\* answered 403 it issues exactly `retries` GETs and then fails with the
\* exhaustion error, which is none of the errors a single failed attempt
\* is thrown with.
C5_RetryBound ==
    /\ gets <= fretries
    /\ (FetchEnded /\ \A k \in 1..Len(responses) : responses[k] = HttpError(403)) =>
            /\ gets = fretries
            /\ fpc = "thrown"
            /\ ferror = ExhaustedError(fretries)
            /\ ferror \notin Failures
    /\ (fpc = "thrown" /\ responses # << >>
            /\ responses[Len(responses)] # HttpError(403)) =>
            /\ ferror = responses[Len(responses)]
            /\ ferror # ExhaustedError(fretries)

C5_Witness ==
    /\ fpc = "thrown" /\ fretries = DefaultRetries /\ gets = DefaultRetries
    /\ ferror = ExhaustedError(DefaultRetries)

\* C6 (as claimed): an attempt that fails with a rate-limiting or a 5xx
\* response is followed by the wait of the delay, and after the wait by
\* another GET as long as fewer than `retries` GETs were issued.
C6_RetriesRateLimitAnd5xx ==
    [][/\ (fpc = "getting" /\ gets < fretries
            /\ Len(responses') = Len(responses) + 1
            /\ responses'[Len(responses')] \in RateLimitOr5xx)
          => (fpc' = "waiting" /\ waits' = waits + 1 /\ gets' = gets)
       /\ (fpc = "waiting" /\ gets < fretries /\ fpc' # fpc)
          => (fpc' = "getting" /\ gets' = gets + 1)]_vars

\* C6 (amended): an attempt that fails with an HTTP 403 response is followed
\* by the wait of the delay, and after the wait by another GET as long as
\* fewer than `retries` GETs were issued.
C6_Retries403 ==
    [][/\ (fpc = "getting" /\ gets < fretries
            /\ Len(responses') = Len(responses) + 1
            /\ responses'[Len(responses')] = HttpError(403))
          => (fpc' = "waiting" /\ waits' = waits + 1 /\ gets' = gets)
       /\ (fpc = "waiting" /\ gets < fretries /\ fpc' # fpc)
          => (fpc' = "getting" /\ gets' = gets + 1)]_vars

C6_Witness ==
    /\ gets = 2 /\ waits = 1 /\ fpc = "getting"
    /\ responses = <<HttpError(403)>>

\* C7: an attempt that fails with no response or with a permanent client
\* error is the last one of the call: the call has failed with that very
\* error, no GET follows it and no delay was waited after it.
C7_NonRetryableFailsAtOnce ==
    \A k \in 1..Len(responses) :
        responses[k] \in PermanentFailure =>
            /\ k = Len(responses)
            /\ fpc = "thrown"
            /\ ferror = responses[k]
            /\ gets = k
            /\ waits = k - 1

C7_Witness ==
    /\ fpc = "thrown" /\ Len(responses) = 2
    /\ responses[1] = HttpError(403) /\ responses[2] = HttpError(404)

(***************************************************************************)
(* Change detection                                                        *)
(***************************************************************************)
\* the share count a text stands for
Count(shares) == parseInt(StripCommas(shares)).v

ExitedKinds == {EXITED, EXITED_BELOW_5, "Exited"}

\* detectChanges has returned a record of this kind for the holding
HasChange(holding, kinds) ==
    \E j \in 1..Len(changes) :
        /\ changes[j].kind \in kinds
        /\ changes[j].company = holding.company
        /\ changes[j].shares = holding.shares

\* C8: a holding of `current` with a same-named holding in `previous` is
\* classified by the numeric order of the two share counts: Increased
\* exactly when current > previous, Reduced exactly when
\* 0 < current < previous.
C8_NumericOrder ==
    dpc = "detected" =>
        \A i \in 1..Len(newInvestments) :
            LET cur == newInvestments[i]
                k == FindIndex(oldInvestments, cur.company)
            IN  k # 0 =>
                  LET prev == oldInvestments[k]
                      rec(kind) ==
                        \E j \in 1..Len(changes) :
                            changes[j] = [kind |-> kind, company |-> cur.company,
                                          shares |-> cur.shares, other |-> prev.shares]
                  IN  /\ rec("Increased stake") <=> Count(cur.shares) > Count(prev.shares)
                      /\ rec("Reduced stake") <=>
                            (0 < Count(cur.shares) /\ Count(cur.shares) < Count(prev.shares))

\* C9: a holding of `previous` with a non-zero share count and no
\* same-named holding in `current` gets an Exited record.
C9_AbsentIsExited ==
    dpc = "detected" =>
        \A k \in 1..Len(oldInvestments) :
            (/\ Count(oldInvestments[k].shares) # 0
             /\ FindIndex(newInvestments, oldInvestments[k].company) = 0)
            => \E j \in 1..Len(changes) :
                    /\ changes[j].kind \in ExitedKinds
                    /\ changes[j].company = oldInvestments[k].company

\* C10: a holding whose current share count is zero is classified Exited
\* and never New, Increased or Reduced: by detectChanges when `previous`
\* has a same-named holding with a non-zero count, and by
\* determineInvestmentChange for SC 13D / SC 13G when the history has no
\* record of the company.
C10_ZeroIsExited ==
    /\ dpc = "detected" =>
        \A i \in 1..Len(newInvestments) :
            LET cur == newInvestments[i]
                k == FindIndex(oldInvestments, cur.company)
            IN  (Count(cur.shares) = 0 /\ k # 0 /\ Count(oldInvestments[k].shares) # 0)
                => /\ HasChange(cur, ExitedKinds)
                   /\ ~HasChange(cur, {"New Investment", "Increased stake", "Reduced stake"})
    /\ dpc = "determined" =>
        LET cur == newInvestments[1]
        IN  (/\ Count(cur.shares) = 0
             /\ dFilingType \in {<<"SC 13D">>, <<"SC 13G">>}
             /\ \A i \in EntryRows(csvFile) : Fields(csvFile)[i][3] # cur.company)
            => changes[1].kind \in ExitedKinds

\* the holding has a record in the persisted history with this share count
PriorRecordWithCount(file, holding) ==
    \E i \in EntryRows(file) :
        /\ Len(Fields(file)[i]) >= 4
        /\ Fields(file)[i][3] = holding.company
        /\ ~parseInt(StripCommas(Fields(file)[i][4])).nan
        /\ ~parseInt(StripCommas(holding.shares)).nan
        /\ Count(Fields(file)[i][4]) = Count(holding.shares)

C12_SameArgumentsSameChanges ==
    dpc = "determined again" =>
        /\ Len(changes) = 2
        /\ changes[1] = changes[2]

(***************************************************************************)
(* Orchestration                                                           *)
(***************************************************************************)
CycleEnded(c) == pc[c] \in {"done", "failed"}

\* C13: a failure while one category is fetched or extracted does not end
\* the cycle: a cycle that has ended has requested the listing of every
\* category and has processed every filing it found.
C13_FailureIsolatedPerCategory ==
    \A c \in Cycles :
        (CycleEnded(c) /\ catIndex[c] > 0) =>
            /\ catIndex[c] = Len(SEC_URLS)
            /\ (pc[c] = "failed" /\ Len(newFilings[c]) > 0) =>
                    filingIndex[c] = Len(newFilings[c])

\* C18: an entry for a filing is added to the history store only by the
\* step that ends the extraction of that filing's document (the holdings
\* were extracted and the change detection has run); no entry is added for
\* a filing whose document was not requested yet.
C18_StoredAfterExtraction ==
    [][\A c \in Cycles : \A f \in listed'[c] :
            Entries(csvFile', f) > Entries(csvFile, f) =>
                /\ pc[c] = "document"
                /\ newFilings[c][filingIndex[c]] = f]_vars

\* C20: the extraction of the holdings of one filing never raises: when the
\* request for the document fails, the cycle does not fail but goes on with
\* the next filing (or, after the last one, with the notification).
C20_ExtractionNeverRaises ==
    [][\A c \in Cycles :
            (pc[c] = "document" /\ pc'[c] # "document") =>
                pc'[c] \in {"ip", "done"}]_vars

\* C14: a GET /run-scraper request whose cycle is over has received its
\* JSON response, whatever failed during the cycle (a cycle that is over
\* takes no further step, so a response still pending then never comes)
C14_RunScraperAnswered ==
    \A c \in Cycles : CycleEnded(c) => res[c] # Pending

\* The change sequence a cycle has aggregated: the new filings of part_000,
\* investmentChanges of server.js and part_003, changes of compareFilings
Aggregate(c) ==
    CASE variant = "part_000" -> newFilings[c]
      [] variant \in {"part_003", "server.js"} -> investmentChanges[c]
      [] OTHER -> changes

\* The cycle is inside sendEmailNotification
Notifying(c) == pc[c] \in {"ip", "sending"}

\* C15: a cycle is inside sendEmailNotification, or has called sendMail,
\* only with a non-empty aggregate, and no mail carries an empty sequence
C15_NotifyOnlyNonEmpty ==
    /\ \A c \in Cycles : (Notifying(c) \/ sent[c] > 0) => Len(Aggregate(c)) > 0
    /\ \A m \in 1..Len(mails) : Len(mails[m]) > 0

\* One cycle ended with an empty aggregate and no mail while another one
\* is sending its non-empty aggregate
C15_Witness ==
    \E c, d \in Cycles :
        /\ pc[c] = "done" /\ Len(Aggregate(c)) = 0 /\ sent[c] = 0
        /\ pc[d] = "sending" /\ Len(Aggregate(d)) > 0 /\ sent[d] = 1

\* Every category of the cycle, and every filing the cycle processes, is
\* behind the cycle
AllProcessed(c) ==
    /\ pc[c] \in {"ip", "sending", "done", "failed"}
    /\ variant \in {"part_003", "server.js"} => catIndex[c] = Len(SEC_URLS)
    /\ variant \in {"part_001", "part_002"} => catIndex[c] = Len(SEC_URLS_M)
    /\ variant \in {"part_001", "part_002", "part_003"} =>
            filingIndex[c] = Len(newFilings[c])

\* C16: a cycle calls sendMail at most once, and it is inside
\* sendEmailNotification or has called sendMail only when all its
\* categories have been processed
C16_OneNotificationAfterAll ==
    \A c \in Cycles :
        /\ sent[c] <= 1
        /\ (Notifying(c) \/ sent[c] > 0) => AllProcessed(c)

\* A cycle over several categories has sent its one mail
C16_Witness ==
    \E c \in Cycles :
        /\ sent[c] = 1 /\ pc[c] = "done"
        /\ catIndex[c] = Len(SEC_URLS) /\ Len(SEC_URLS) > 1

\* C17: the step that ends a sendMail call, by rejection as by resolution,
\* leaves the CSV file as it is
C17_SendFailureKeepsHistory ==
    [][\A c \in Cycles :
          (pc[c] = "sending" /\ pc'[c] # "sending") => csvFile' = csvFile]_vars

\* sendMail was rejected in a cycle of part_003 that had recorded filings
C17_Witness ==
    \E c \in Cycles :
        /\ variant = "part_003" /\ pc[c] = "failed" /\ sent[c] = 1
        /\ \E f \in listed[c] : Recorded(csvFile, f)

\* The network requests of a cycle that are awaited: those of axios.get,
\* getPublicIP and sendMail, and the axios.get inside fetchWithRetry
RequestsOf(c) ==
    Cardinality({r \in inflight : r.cycle = c})
        + (IF variant \in {"part_001", "part_002"} /\ c = TheCycle /\ fpc = "getting"
           THEN 1 ELSE 0)

\* C19: a cycle awaits at most one network request; a listing request that
\* is awaited, and a fetchWithRetry call for a listing that has not ended
\* (attempts and delays), is that of the category the loop is at
C19_OneRequestPerCycle ==
    /\ \A c \in Cycles : RequestsOf(c) <= 1
    /\ \A r \in inflight :
          r.kind = "listing" =>
              r.n = IF variant = "part_000" THEN 1 ELSE catIndex[r.cycle]
    /\ (variant \in {"part_001", "part_002"} /\ fpc \in {"getting", "waiting"}) =>
          \A k \in 1..Len(SEC_URLS_M) :
              furl = ListingUrl(SEC_URLS_M[k]) => catIndex[TheCycle] = k

\* The second attempt for the listing of the second category is awaited
C19_Witness ==
    /\ variant = "part_001" /\ pc[TheCycle] = "listing"
    /\ catIndex[TheCycle] = 2 /\ fpc = "getting" /\ gets = 2

(***************************************************************************)
(* Lookup, parsing and extraction                                          *)
(***************************************************************************)
\* The rows of the CSV file that carry the company in their third field
RowsOf(file, company) ==
    {i \in 1..Len(Fields(file)) :
        Len(Fields(file)[i]) > 2 /\ Fields(file)[i][3] = company}

FirstRowOf(file, company) ==
    CHOOSE i \in RowsOf(file, company) : \A j \in RowsOf(file, company) : i <= j

\* What the first row of the company alone decides for the holding: the
\* change that row returns, or the result of a file without the company
DecidedByFirst(file, holding, filingType) ==
    LET alone == ChangeFromRows(<<Fields(file)[FirstRowOf(file, holding.company)]>>,
                                holding.company, holding.shares)
    IN  IF alone # "none" THEN alone
        ELSE determineInvestmentChange(CSV_HEADER, holding.company,
                                       holding.shares, filingType)

\* The snapshot without the entries that repeat the company of an earlier one
RECURSIVE FirstOfEach(_, _)
FirstOfEach(investments, seen) ==
    IF investments = << >> THEN << >>
    ELSE IF Head(investments).company \in seen
         THEN FirstOfEach(Tail(investments), seen)
         ELSE <<Head(investments)>>
                \o FirstOfEach(Tail(investments), seen \cup {Head(investments).company})

C22_NoEmptyDate ==
    /\ \A c \in Cycles : \A i \in 1..Len(newFilings[c]) :
            newFilings[c][i].filingDate # << >>
    /\ \A i \in EntryRows(csvFile) : Fields(csvFile)[i][1] # << >>
    /\ \A m \in 1..Len(mails) : \A j \in 1..Len(mails[m]) :
            mails[m][j].filingDate # << >>

\* A company name the extraction has to leave out
Noise(company) ==
    company = <<"SUBMISSION TEXT FILE">> \/ TextLength(company) <= 2

\* C23: no holding extracted from the table of a document (the tables are
\* the only place where the documents carry such names) has the company
\* name "SUBMISSION TEXT FILE" or a name of two characters or less
C23_NoNoiseHoldings ==
    /\ \A i \in 1..Len(oldInvestments) : ~Noise(oldInvestments[i].company)
    /\ \A i \in 1..Len(newInvestments) : ~Noise(newInvestments[i].company)

\* C24: a document without an information_table.xml link yields the
\* holdings of its table, and a document whose XML file gave no holdings
\* (fetch failed, parse error, no infoTable) still yields the holdings of
\* its table
C24_StructuredThenTabular ==
    [][/\ (pc[TheCycle] = "oldDoc" /\ pc'[TheCycle] \notin {"oldDoc", "oldXml"}
            /\ fpc = "returned") =>
              \E doc \in DocsM :
                  /\ doc.xmlFileLink = << >>
                  /\ oldInvestments' = extractInvestmentsFromHTML(doc.rows)
       /\ (pc[TheCycle] = "oldXml" /\ pc'[TheCycle] # "oldXml"
            /\ oldInvestments' = << >>) =>
              extractInvestmentsFromHTML(loadedDoc.rows) = << >>
       /\ (pc[TheCycle] = "newXml" /\ pc'[TheCycle] # "newXml"
            /\ newInvestments' = << >>) =>
              extractInvestmentsFromHTML(loadedDoc.rows) = << >>]_vars

(***************************************************************************)
(* History store and scheduling                                            *)
(***************************************************************************)
IsPrefix(a, b) == Len(a) <= Len(b) /\ SubSeq(b, 1, Len(a)) = a

\* C25: every step leaves the CSV file a prefix of what it is afterwards
\* (rows are only appended; none is changed, moved or removed)
C25_AppendOnly == [][IsPrefix(csvFile, csvFile')]_vars

\* Two cycles have each appended to the CSV file
C25_Witness ==
    /\ Cardinality(EntryRows(csvFile)) >= 2
    /\ \E c, d \in Cycles :
          /\ c # d
          /\ pc[c] = "done" /\ newFilings[c] # << >>
          /\ pc[d] = "done" /\ newFilings[d] # << >>

\* The attempts of the call that were answered 403
Blocked403 == {k \in 1..Len(responses) : responses[k] = HttpError(403)}

\* C27: the delay is waited after every attempt answered 403, the last
\* permitted one included: the exhaustion error comes after `retries` GETs
\* and `retries` waits, and with retries = 0 it comes without any GET
C27_WaitAfterEvery403 ==
    /\ waits = Cardinality(Blocked403)
    /\ (fpc = "thrown" /\ ferror = ExhaustedError(fretries)) =>
            /\ gets = fretries
            /\ waits = fretries
            /\ Cardinality(Blocked403) = fretries
    /\ (FetchEnded /\ fretries = 0) =>
            /\ fpc = "thrown" /\ ferror = ExhaustedError(0)
            /\ gets = 0 /\ waits = 0

\* Every permitted attempt of a call with two or more was answered 403
C27_Witness ==
    /\ fpc = "thrown" /\ fretries >= 2 /\ ferror = ExhaustedError(fretries)
    /\ gets = fretries /\ waits = fretries

CsvBacked == variant \in {"part_000", "part_003", "server.js"}

\* C28: in the CSV-backed programs every filing of a list handed to
\* sendEmailNotification, and of every mail, has its row in the CSV file
C28_RecordedBeforeNotified ==
    CsvBacked =>
        LET fields == Fields(csvFile)
            recorded == {RowTriple(fields[i]) :
                            i \in {k \in 2..Len(fields) : Len(fields[k]) >= 3}}
        IN  /\ \A c \in Cycles : Notifying(c) =>
                  \A i \in 1..Len(Aggregate(c)) :
                      Triple(ItemFiling(Aggregate(c)[i])) \in recorded
            /\ \A m \in 1..Len(mails) : \A j \in 1..Len(mails[m]) :
                  Triple(ItemFiling(mails[m][j])) \in recorded

\* A cycle of part_000 is sending two filings, both in the CSV file
C28_Witness ==
    /\ variant = "part_000"
    /\ \E c \in Cycles :
          /\ pc[c] = "sending" /\ Len(newFilings[c]) = 2
          /\ mails[Len(mails)] = newFilings[c]
          /\ \A i \in 1..2 : Recorded(csvFile, newFilings[c][i])

\* C26: the step after the isFilingStored test of a row is the storeFiling
\* of that row by the same cycle: while a cycle stands between the two, no
\* other cycle takes a step
C26_CheckAndAppendTogether ==
    [][\A c \in Cycles :
          pc[c] = "checked" =>
              /\ pc'[c] # "checked"
              /\ \A d \in Cycles \ {c} : pc'[d] = pc[d]
              /\ LET row == Head(rowsLeft[c])
                 IN  csvFile' = storeFiling(csvFile, row.date, row.type,
                                            SEC_HOST \o linkElement(row)[1])]_vars

\* A cycle has stored a row and runs on its next row while the listing
\* request of another cycle is awaited
C26_Witness ==
    \E c, d \in Cycles :
        /\ c # d
        /\ pc[c] = "row" /\ Len(newFilings[c]) = 1
        /\ pc[d] = "fetching"

====
